---- MODULE Spec2Model ----
(***************************************************************************)
(* aws-viz: POST /scan pipeline (routes/scan.ts), the AWS resource scanner *)
(* (services/aws-scanner.ts), the graph builder (services/graph-builder.ts)*)
(* and the pricing service (services/pricing-service.ts).                  *)
(*                                                                         *)
(* JavaScript values: `undefined`/`null` of a string-valued field is the   *)
(* string Undefined; of a list-valued field the empty sequence (every read *)
(* of such a field in the code is `x || []` or `x?.map`); booleans that    *)
(* may be undefined are the strings "true"/"false"/Undefined.              *)
(***************************************************************************)
EXTENDS Integers, Sequences, FiniteSets, TLC

Undefined == "<undefined>"

\* JavaScript truthiness of a string-valued field (!x is true for undefined and "").
Truthy(x) == x # Undefined /\ x # ""

\* a || b for string-valued fields
OrElse(a, b) == IF Truthy(a) THEN a ELSE b

----------------------------------------------------------------------------
(* Sequence helpers (Array.prototype.map / filter / flatMap / includes).   *)

SeqRange(s) == {s[i] : i \in 1..Len(s)}

SeqIncludes(s, x) == \E i \in 1..Len(s) : s[i] = x

RECURSIVE Flatten(_)
Flatten(ss) == IF Len(ss) = 0 THEN <<>> ELSE Head(ss) \o Flatten(Tail(ss))

\* the first index of s whose element satisfies Test, 0 when there is none
\* (Array.prototype.find / findIndex)
FindIndex(s, Test(_)) ==
    IF \E i \in 1..Len(s) : Test(s[i])
    THEN CHOOSE i \in 1..Len(s) : Test(s[i]) /\ \A j \in 1..(i - 1) : ~Test(s[j])
    ELSE 0

----------------------------------------------------------------------------
(* shared/types.ts                                                         *)

EC2_INSTANCE == "ec2-instance"
LAMBDA_FUNCTION == "lambda-function"
EKS_CLUSTER == "eks-cluster"
EKS_NODEGROUP == "eks-nodegroup"
EKS_FARGATE_PROFILE == "eks-fargate-profile"
S3_BUCKET == "s3-bucket"
EBS_VOLUME == "ebs-volume"
RDS_INSTANCE == "rds-instance"
VPC == "vpc"
SUBNET == "subnet"
ROUTE_TABLE == "route-table"
INTERNET_GATEWAY == "internet-gateway"
NAT_GATEWAY == "nat-gateway"
SECURITY_GROUP == "security-group"
NETWORK_INTERFACE == "network-interface"
ELASTIC_LOAD_BALANCER == "elastic-load-balancer"
IAM_ROLE == "iam-role"

ResourceType ==
    { EC2_INSTANCE, LAMBDA_FUNCTION, EKS_CLUSTER, EKS_NODEGROUP, EKS_FARGATE_PROFILE,
      S3_BUCKET, EBS_VOLUME, RDS_INSTANCE, VPC, SUBNET, ROUTE_TABLE, INTERNET_GATEWAY,
      NAT_GATEWAY, SECURITY_GROUP, NETWORK_INTERFACE, ELASTIC_LOAD_BALANCER, IAM_ROLE }

CONTAINS == "contains"
ATTACHED_TO == "attached-to"
ASSOCIATED_WITH == "associated-with"
ROUTES_TO == "routes-to"
USES == "uses"
MEMBER_OF == "member-of"
MANAGES == "manages"
RUNS_ON == "runs-on"

\* enum InfrastructureLayer
GATEWAY == 1
LOAD_BALANCER == 2
COMPUTE == 3
DATA == 4
FOUNDATION == 5

BUSINESS_FLOW == "business-flow"
INFRASTRUCTURE_DETAIL == "infrastructure-detail"

\* AwsResource.metadata: the keys the graph builder, the pricing lookup or the
\* client read, plus the six keys createNodes adds to a node's metadata. A key
\* the scanner does not set for a resource type reads as undefined.
NoRules == [kind |-> "none", inbound |-> <<>>, outbound |-> <<>>, entries |-> <<>>]

NoMeta ==
    [ cidrBlock |-> Undefined, isDefault |-> Undefined, mapPublicIpOnLaunch |-> Undefined,
      instanceType |-> Undefined, instanceClass |-> Undefined,
      publicIpAddress |-> Undefined, securityGroupIds |-> <<>>,
      iamInstanceProfile |-> <<>>, role |-> <<>>, attachments |-> <<>>,
      attachment |-> [instanceId |-> Undefined], description |-> Undefined,
      detailedRules |-> NoRules, associatedSubnets |-> <<>>,
      availabilityZones |-> <<>>, clusterName |-> Undefined,
      region |-> Undefined, arn |-> <<>>, tags |-> <<>>, vpcId |-> Undefined,
      subnetId |-> Undefined, availabilityZone |-> Undefined ]

----------------------------------------------------------------------------
(* The AWS side: what the describe/list calls of one account return.  An   *)
(* item carries the response fields the scanner reads: Id, Tags (a list of *)
(* Key/Value pairs, a key being a tuple of its parts), VpcId, SubnetId,    *)
(* Az, X (GroupName, LoadBalancerName or FunctionName; a bucket's          *)
(* LocationConstraint; the cluster an EKS nodegroup/profile is listed      *)
(* under) and M, the remaining fields as the scanner copies them into      *)
(* metadata.                                                               *)

Region == "us-east-1"

Tag(k, v) == [Key |-> k, Value |-> v]

Item(id, tags, vpc, subnet, az, x, m) ==
    [Id |-> id, Tags |-> tags, VpcId |-> vpc, SubnetId |-> subnet, Az |-> az, X |-> x, M |-> m]

IamArn(account, kind, name) == <<"arn:aws:iam", account, kind, name>>

Rule(protocol, from, to, cidrs, direction) ==
    [protocol |-> protocol, fromPort |-> from, toPort |-> to, cidrBlocks |-> cidrs,
     direction |-> direction]

NoItems ==
    [ vpcs |-> <<>>, subnets |-> <<>>, instances |-> <<>>, volumes |-> <<>>,
      securityGroups |-> <<>>, routeTables |-> <<>>, internetGateways |-> <<>>,
      natGateways |-> <<>>, networkInterfaces |-> <<>>, networkAcls |-> <<>>,
      loadBalancers |-> <<>>, s3Buckets |-> <<>>, rdsInstances |-> <<>>,
      lambdaFunctions |-> <<>>, iamRoles |-> <<>>, eksClusters |-> <<>>,
      eksNodegroups |-> <<>>, eksFargateProfiles |-> <<>> ]

\* Account A: one VPC with the full web tier, an EKS cluster, and references
\* between the resources (security groups, attachments, roles, EKS tags).
AccountA ==
    [ NoItems EXCEPT
      !.vpcs = << Item("vpc-1", <<Tag(<<"Name">>, "main")>>, Undefined, Undefined, Undefined, Undefined,
                       [NoMeta EXCEPT !.cidrBlock = "10.0.0.0/16", !.isDefault = "false"]) >>,
      !.subnets = << Item("subnet-1", <<>>, "vpc-1", Undefined, "us-east-1a", Undefined,
                          [NoMeta EXCEPT !.cidrBlock = "10.0.1.0/24", !.mapPublicIpOnLaunch = "true"]) >>,
      !.instances = << Item("i-1", <<Tag(<<"Name">>, "web"), Tag(<<"eks:nodegroup-name">>, "ng-1"),
                                     Tag(<<"kubernetes.io/cluster/", "prod">>, "owned")>>,
                            "vpc-1", "subnet-1", "us-east-1a", Undefined,
                            [NoMeta EXCEPT !.instanceType = "t3.large", !.publicIpAddress = "1.2.3.4",
                                           !.securityGroupIds = <<"sg-1">>,
                                           !.iamInstanceProfile = IamArn("123456789012", "instance-profile", "app-role")]) >>,
      !.volumes = << Item("vol-1", <<>>, Undefined, Undefined, "us-east-1a", Undefined,
                          [NoMeta EXCEPT !.attachments = << [instanceId |-> "i-1"] >>]) >>,
      !.securityGroups = << Item("sg-1", <<>>, "vpc-1", Undefined, Undefined, "web-sg",
                                 [NoMeta EXCEPT !.description = "web",
                                    !.detailedRules = [kind |-> "sg",
                                        inbound |-> << Rule("tcp", 443, 443, <<"0.0.0.0/0">>, "inbound") >>,
                                        outbound |-> << Rule("all", 0, 0, <<"0.0.0.0/0">>, "outbound") >>,
                                        entries |-> <<>>]]) >>,
      !.routeTables = << Item("rtb-1", <<>>, "vpc-1", Undefined, Undefined, Undefined, NoMeta) >>,
      !.internetGateways = << Item("igw-1", <<>>, "vpc-1", Undefined, Undefined, Undefined, NoMeta) >>,
      !.natGateways = << Item("nat-1", <<>>, "vpc-1", "subnet-1", Undefined, Undefined, NoMeta) >>,
      !.networkInterfaces = << Item("eni-1", <<>>, "vpc-1", "subnet-1", "us-east-1a", Undefined,
                                    [NoMeta EXCEPT !.attachment = [instanceId |-> "i-1"]]) >>,
      !.networkAcls = << Item("acl-1", <<>>, "vpc-1", Undefined, Undefined, Undefined,
                              [NoMeta EXCEPT !.isDefault = "true", !.associatedSubnets = <<"subnet-1">>,
                                  !.detailedRules = [kind |-> "nacl", inbound |-> <<>>, outbound |-> <<>>,
                                      entries |-> << Rule("all", 0, 0, <<"0.0.0.0/0">>, "inbound") >>]]) >>,
      !.loadBalancers = << Item("lb-1", <<>>, "vpc-1", Undefined, Undefined, "web-lb",
                                [NoMeta EXCEPT !.availabilityZones = <<"us-east-1a">>]) >>,
      !.s3Buckets = << Item("assets", <<>>, Undefined, Undefined, Undefined, Undefined, NoMeta),
                       Item("backup-eu", <<>>, Undefined, Undefined, Undefined, "eu-west-1", NoMeta) >>,
      !.rdsInstances = << Item("db-1", <<>>, "vpc-1", Undefined, "us-east-1a", Undefined,
                               [NoMeta EXCEPT !.instanceClass = "db.t3.micro"]) >>,
      !.lambdaFunctions = << Item("fn-1", <<>>, Undefined, Undefined, Undefined, "resize",
                                  [NoMeta EXCEPT !.role = IamArn("123456789012", "role", "app-role")]) >>,
      !.iamRoles = << Item("app-role", <<>>, Undefined, Undefined, Undefined, Undefined, NoMeta) >>,
      !.eksClusters = << Item("prod", <<>>, "vpc-1", Undefined, Undefined, Undefined, NoMeta) >>,
      !.eksNodegroups = << Item("ng-1", <<>>, Undefined, Undefined, Undefined, "prod", NoMeta) >>,
      !.eksFargateProfiles = << Item("fp-1", <<>>, Undefined, Undefined, Undefined, "prod", NoMeta) >> ]

\* Account B: a small account: an instance without instance type detail, an
\* unattached volume, a detached internet gateway, a database and a bucket.
AccountB ==
    [ NoItems EXCEPT
      !.vpcs = << Item("vpc-2", <<>>, Undefined, Undefined, Undefined, Undefined,
                       [NoMeta EXCEPT !.cidrBlock = "172.31.0.0/16", !.isDefault = "true"]) >>,
      !.instances = << Item("i-2", <<>>, "vpc-2", Undefined, "us-east-1b", Undefined, NoMeta) >>,
      !.volumes = << Item("vol-2", <<>>, Undefined, Undefined, "us-east-1b", Undefined, NoMeta) >>,
      !.internetGateways = << Item("igw-2", <<>>, Undefined, Undefined, Undefined, Undefined, NoMeta) >>,
      !.s3Buckets = << Item("logs", <<>>, Undefined, Undefined, Undefined, Undefined, NoMeta) >>,
      !.rdsInstances = << Item("db-2", <<>>, "vpc-2", Undefined, "us-east-1b", Undefined,
                               [NoMeta EXCEPT !.instanceClass = "db.m5.large"]) >> ]

\* DescribeLoadBalancers returns with every load balancer the security groups
\* it uses (LoadBalancer.SecurityGroups): web-lb of account A uses web-sg
LoadBalancerSecurityGroups(loadBalancerId) ==
    IF loadBalancerId = "lb-1" THEN <<"sg-1">> ELSE <<>>

\* The account an access key belongs to; every call made with another key is
\* rejected by AWS.
KnownKeys == {"AKIA-A", "AKIA-B"}

AccountOf(accessKeyId) == IF accessKeyId = "AKIA-A" THEN AccountA ELSE AccountB

----------------------------------------------------------------------------
(* services/aws-scanner.ts                                                 *)

Resource(id, name, type, region, arn, vpcId, subnetId, az, tags, metadata) ==
    [ id |-> id, name |-> name, type |-> type, region |-> region, arn |-> arn,
      vpcId |-> vpcId, subnetId |-> subnetId, availabilityZone |-> az,
      tags |-> tags, metadata |-> metadata ]

getResourceName(tags) ==
    LET i == FindIndex(tags, LAMBDA t : t.Key = <<"Name">>)
    IN  IF i = 0 THEN Undefined
        ELSE IF Truthy(tags[i].Value) THEN tags[i].Value ELSE Undefined

parseTags(tags) ==
    LET kept == {i \in 1..Len(tags) : tags[i].Key # <<>> /\ Truthy(tags[i].Value)}
        last(k) == CHOOSE i \in kept : tags[i].Key = k /\ \A j \in kept : tags[j].Key = k => j <= i
    IN  [k \in {tags[i].Key : i \in kept} |-> tags[last(k)].Value]

\* `${clusterName}/${name}` for the names of the modelled accounts
Slash(a, b) ==
    CASE a = "prod" /\ b = "ng-1" -> "prod/ng-1"
      [] a = "prod" /\ b = "fp-1" -> "prod/fp-1"
      [] OTHER -> "other/other"

Ec2Arn(kind, id) == <<"arn:aws:ec2", Region, kind, id>>

MapItems(items, F(_)) == [i \in 1..Len(items) |-> F(items[i])]

scanVpcs(acct) ==
    MapItems(acct.vpcs, LAMBDA v :
        Resource(v.Id, OrElse(getResourceName(v.Tags), v.Id), VPC, Region, Ec2Arn("vpc", v.Id),
                 Undefined, Undefined, Undefined, parseTags(v.Tags), v.M))

scanSubnets(acct) ==
    MapItems(acct.subnets, LAMBDA v :
        Resource(v.Id, OrElse(getResourceName(v.Tags), v.Id), SUBNET, Region, Ec2Arn("subnet", v.Id),
                 v.VpcId, Undefined, v.Az, parseTags(v.Tags), v.M))

scanEC2Instances(acct) ==
    MapItems(acct.instances, LAMBDA v :
        Resource(v.Id, OrElse(getResourceName(v.Tags), v.Id), EC2_INSTANCE, Region, Ec2Arn("instance", v.Id),
                 v.VpcId, v.SubnetId, v.Az, parseTags(v.Tags), v.M))

scanEBSVolumes(acct) ==
    MapItems(acct.volumes, LAMBDA v :
        Resource(v.Id, OrElse(getResourceName(v.Tags), v.Id), EBS_VOLUME, Region, Ec2Arn("volume", v.Id),
                 Undefined, Undefined, v.Az, parseTags(v.Tags), v.M))

scanSecurityGroups(acct) ==
    MapItems(acct.securityGroups, LAMBDA v :
        Resource(v.Id, OrElse(v.X, v.Id), SECURITY_GROUP, Region, Ec2Arn("security-group", v.Id),
                 v.VpcId, Undefined, Undefined, parseTags(v.Tags), v.M))

scanRouteTables(acct) ==
    MapItems(acct.routeTables, LAMBDA v :
        Resource(v.Id, OrElse(getResourceName(v.Tags), v.Id), ROUTE_TABLE, Region, Ec2Arn("route-table", v.Id),
                 v.VpcId, Undefined, Undefined, parseTags(v.Tags), v.M))

scanInternetGateways(acct) ==
    MapItems(acct.internetGateways, LAMBDA v :
        Resource(v.Id, OrElse(getResourceName(v.Tags), v.Id), INTERNET_GATEWAY, Region,
                 Ec2Arn("internet-gateway", v.Id),
                 v.VpcId, Undefined, Undefined, parseTags(v.Tags), v.M))

scanNatGateways(acct) ==
    MapItems(acct.natGateways, LAMBDA v :
        Resource(v.Id, OrElse(getResourceName(v.Tags), v.Id), NAT_GATEWAY, Region, Ec2Arn("nat-gateway", v.Id),
                 v.VpcId, v.SubnetId, Undefined, parseTags(v.Tags), v.M))

scanNetworkInterfaces(acct) ==
    MapItems(acct.networkInterfaces, LAMBDA v :
        Resource(v.Id, OrElse(getResourceName(v.Tags), v.Id), NETWORK_INTERFACE, Region,
                 Ec2Arn("network-interface", v.Id),
                 v.VpcId, v.SubnetId, v.Az, parseTags(v.Tags), v.M))

\* a network ACL is reported with type SECURITY_GROUP ("We'll add a NETWORK_ACL type later")
scanNetworkAcls(acct) ==
    MapItems(acct.networkAcls, LAMBDA v :
        Resource(v.Id, OrElse(getResourceName(v.Tags), v.Id), SECURITY_GROUP, Region, Ec2Arn("network-acl", v.Id),
                 v.VpcId, Undefined, Undefined, parseTags(v.Tags), v.M))

scanLoadBalancers(acct) ==
    MapItems(acct.loadBalancers, LAMBDA v :
        Resource(v.Id, v.X, ELASTIC_LOAD_BALANCER, Region, <<"arn:aws:elasticloadbalancing", v.Id>>,
                 v.VpcId, Undefined, Undefined, <<>>, v.M))

\* only the buckets of the scanned region are kept; the region of a bucket
\* without LocationConstraint is us-east-1
scanS3Buckets(acct) ==
    LET bucketRegion(v) == OrElse(v.X, "us-east-1")
        kept == SelectSeq(acct.s3Buckets, LAMBDA v : bucketRegion(v) = Region)
    IN  MapItems(kept, LAMBDA v :
            Resource(v.Id, v.Id, S3_BUCKET, bucketRegion(v), <<"arn:aws:s3", v.Id>>,
                     Undefined, Undefined, Undefined, <<>>, v.M))

scanRDSInstances(acct) ==
    MapItems(acct.rdsInstances, LAMBDA v :
        Resource(v.Id, v.Id, RDS_INSTANCE, Region, <<"arn:aws:rds", v.Id>>,
                 v.VpcId, Undefined, v.Az, <<>>, v.M))

scanLambdaFunctions(acct) ==
    MapItems(acct.lambdaFunctions, LAMBDA v :
        Resource(v.Id, v.X, LAMBDA_FUNCTION, Region, <<"arn:aws:lambda", v.Id>>,
                 v.VpcId, Undefined, Undefined, <<>>, v.M))

scanIAMRoles(acct) ==
    MapItems(acct.iamRoles, LAMBDA v :
        Resource(v.Id, v.Id, IAM_ROLE, "global", IamArn("123456789012", "role", v.Id),
                 Undefined, Undefined, Undefined, parseTags(v.Tags), v.M))

scanEKSClusters(acct) ==
    MapItems(acct.eksClusters, LAMBDA v :
        Resource(v.Id, v.Id, EKS_CLUSTER, Region, <<"arn:aws:eks", "cluster", v.Id>>,
                 v.VpcId, Undefined, Undefined, parseTags(v.Tags), v.M))

scanEKSNodegroups(acct) ==
    MapItems(acct.eksNodegroups, LAMBDA v :
        Resource(Slash(v.X, v.Id), v.Id, EKS_NODEGROUP, Region, <<"arn:aws:eks", "nodegroup", v.Id>>,
                 Undefined, Undefined, Undefined, parseTags(v.Tags),
                 [v.M EXCEPT !.clusterName = v.X]))

scanEKSFargateProfiles(acct) ==
    MapItems(acct.eksFargateProfiles, LAMBDA v :
        Resource(Slash(v.X, v.Id), v.Id, EKS_FARGATE_PROFILE, Region, <<"arn:aws:eks", "fargateprofile", v.Id>>,
                 Undefined, Undefined, Undefined, parseTags(v.Tags),
                 [v.M EXCEPT !.clusterName = v.X]))

\* The 18 scans in the order scanAllResources lists them.
NumScans == 18

\* What scan number i resolves with when its first AWS call succeeds.
ScanOf(i, acct) ==
    CASE i = 1 -> scanVpcs(acct)
      [] i = 2 -> scanSubnets(acct)
      [] i = 3 -> scanEC2Instances(acct)
      [] i = 4 -> scanEBSVolumes(acct)
      [] i = 5 -> scanSecurityGroups(acct)
      [] i = 6 -> scanRouteTables(acct)
      [] i = 7 -> scanInternetGateways(acct)
      [] i = 8 -> scanNatGateways(acct)
      [] i = 9 -> scanNetworkInterfaces(acct)
      [] i = 10 -> scanNetworkAcls(acct)
      [] i = 11 -> scanLoadBalancers(acct)
      [] i = 12 -> scanS3Buckets(acct)
      [] i = 13 -> scanRDSInstances(acct)
      [] i = 14 -> scanLambdaFunctions(acct)
      [] i = 15 -> scanIAMRoles(acct)
      [] i = 16 -> scanEKSClusters(acct)
      [] i = 17 -> scanEKSNodegroups(acct)
      [] OTHER -> scanEKSFargateProfiles(acct)

\* A per-type scan never rejects: an error of its AWS call is caught inside
\* the scan ("catch (error) { console.error(...); return []; }").
Pending == [status |-> "pending", value |-> <<>>]
Fulfilled(v) == [status |-> "fulfilled", value |-> v]

ScanSettled(i, acct, callFails) ==
    IF callFails THEN Fulfilled(<<>>) ELSE Fulfilled(ScanOf(i, acct))

\* a collection that puts the values of later results first
CollectBackwards(results, i) ==
    Flatten([ k \in 1..(Len(results) - i + 1) |->
                LET r == results[Len(results) + 1 - k]
                IN  IF r.status = "fulfilled" THEN r.value ELSE <<>> ])

\* results.forEach: push the value of every fulfilled result, in list order
RECURSIVE CollectFrom(_, _)
CollectFrom(results, i) ==
    IF i > Len(results) THEN <<>>
    ELSE (IF results[i].status = "fulfilled" THEN results[i].value ELSE <<>>)
         \o CollectFrom(results, i + 1)

\* a collection that assigns each fulfilled value instead of pushing it
CollectAssigned(results) ==
    LET fulfilled == SelectSeq(results, LAMBDA r : r.status = "fulfilled")
    IN  IF Len(fulfilled) = 0 THEN <<>> ELSE fulfilled[Len(fulfilled)].value

CollectFulfilled(results) == CollectFrom(results, 1)

\* a wait that ends with the first settled scan (Promise.race)
FirstSettled(results) == \E i \in 1..Len(results) : results[i].status # "pending"

\* await Promise.allSettled(scanPromises)
AllSettled(results) == \A i \in 1..Len(results) : results[i].status # "pending"

----------------------------------------------------------------------------
(* services/graph-builder.ts: the business flow view                       *)

getInfrastructureLayer(resourceType) ==
    CASE resourceType \in {INTERNET_GATEWAY, NAT_GATEWAY} -> GATEWAY
      [] resourceType \in {ELASTIC_LOAD_BALANCER, ROUTE_TABLE} -> LOAD_BALANCER
      [] resourceType \in {EC2_INSTANCE, EKS_CLUSTER, EKS_NODEGROUP, EKS_FARGATE_PROFILE,
                           LAMBDA_FUNCTION} -> COMPUTE
      [] resourceType \in {RDS_INSTANCE, S3_BUCKET, EBS_VOLUME} -> DATA
      [] OTHER -> FOUNDATION

\* metadata is the resource's own metadata object (no copy, no added keys)
createNodeFromResource(resource) ==
    [ id |-> resource.id, name |-> resource.name, type |-> resource.type,
      group |-> OrElse(resource.vpcId, "global"),
      layer |-> getInfrastructureLayer(resource.type),
      metadata |-> resource.metadata ]

businessCriticalTypes ==
    << INTERNET_GATEWAY, ELASTIC_LOAD_BALANCER, EC2_INSTANCE, EKS_CLUSTER, LAMBDA_FUNCTION,
       RDS_INSTANCE, S3_BUCKET, NAT_GATEWAY, VPC, SUBNET, SECURITY_GROUP >>

isBusinessCritical(resource) == SeqIncludes(businessCriticalTypes, resource.type)

determineFlowLayer(resource) ==
    CASE resource.type = INTERNET_GATEWAY -> "entry"
      [] resource.type \in {ELASTIC_LOAD_BALANCER, NAT_GATEWAY} -> "security"
      [] resource.type \in {EC2_INSTANCE, EKS_CLUSTER, LAMBDA_FUNCTION} -> "compute"
      [] resource.type \in {RDS_INSTANCE, S3_BUCKET} -> "data"
      [] OTHER -> "external"

hasPublicAccess(resource) ==
    \/ Truthy(resource.metadata.publicIpAddress)
    \/ resource.type = INTERNET_GATEWAY
    \/ resource.type = ELASTIC_LOAD_BALANCER
    \/ resource.type = S3_BUCKET

createBusinessFlowNodes(resources) ==
    LET critical == SelectSeq(resources, isBusinessCritical)
    IN  [ i \in 1..Len(critical) |->
            LET baseNode == createNodeFromResource(critical[i])
            IN  [ id |-> baseNode.id, name |-> baseNode.name, type |-> baseNode.type,
                  group |-> baseNode.group, layer |-> baseNode.layer,
                  metadata |-> baseNode.metadata,
                  flowLayer |-> determineFlowLayer(critical[i]),
                  isBusinessCritical |-> TRUE,
                  publicAccess |-> hasPublicAccess(critical[i]) ] ]

\* a flow record with its ends exchanged
FlowReversed(sourceId, targetId, type, flowType, protocols, ports, weight, description) ==
    [ sourceId |-> targetId, targetId |-> sourceId, type |-> type, flowType |-> flowType,
      isMainPath |-> TRUE, protocols |-> protocols, ports |-> ports, weight |-> weight,
      metadata |-> [flowDescription |-> description] ]

Flow(sourceId, targetId, type, flowType, protocols, ports, weight, description) ==
    [ sourceId |-> sourceId, targetId |-> targetId, type |-> type, flowType |-> flowType,
      isMainPath |-> TRUE, protocols |-> protocols, ports |-> ports, weight |-> weight,
      metadata |-> [flowDescription |-> description] ]

identifyTrafficFlows(resources, businessNodeIds) ==
    LET igws == SelectSeq(resources, LAMBDA r : r.type = INTERNET_GATEWAY /\ r.id \in businessNodeIds)
        albs == SelectSeq(resources, LAMBDA r : r.type = ELASTIC_LOAD_BALANCER /\ r.id \in businessNodeIds)
        computeOf(alb) == SelectSeq(resources, LAMBDA r :
                              /\ r.type \in {EC2_INSTANCE, EKS_CLUSTER}
                              /\ r.id \in businessNodeIds
                              /\ r.vpcId = alb.vpcId)
        computeResources == SelectSeq(resources, LAMBDA r :
                              /\ r.type \in {EC2_INSTANCE, EKS_CLUSTER, LAMBDA_FUNCTION}
                              /\ r.id \in businessNodeIds)
        dataResources == SelectSeq(resources, LAMBDA r :
                              /\ r.type \in {RDS_INSTANCE, S3_BUCKET}
                              /\ r.id \in businessNodeIds)
        igwFlows == Flatten([ i \in 1..Len(igws) |->
                       LET to == SelectSeq(albs, LAMBDA alb : igws[i].vpcId = alb.vpcId)
                       IN  [ j \in 1..Len(to) |->
                               Flow(igws[i].id, to[j].id, ROUTES_TO, "traffic",
                                    <<"HTTP", "HTTPS">>, <<"80", "443">>, 3,
                                    "Internet traffic to load balancer") ] ])
        albFlows == Flatten([ i \in 1..Len(albs) |->
                       LET to == computeOf(albs[i])
                       IN  [ j \in 1..Len(to) |->
                               Flow(albs[i].id, to[j].id, ROUTES_TO, "traffic",
                                    <<"HTTP">>, <<"8080", "3000">>, 2,
                                    "Load balancer distributing to compute") ] ])
        dataFlows == Flatten([ i \in 1..Len(computeResources) |->
                       LET to == SelectSeq(dataResources, LAMBDA d :
                                     computeResources[i].vpcId = d.vpcId \/ d.type = S3_BUCKET)
                       IN  [ j \in 1..Len(to) |->
                               Flow(computeResources[i].id, to[j].id, USES, "data",
                                    IF to[j].type = RDS_INSTANCE THEN <<"TCP">> ELSE <<"HTTPS">>,
                                    IF to[j].type = RDS_INSTANCE THEN <<"5432", "3306">> ELSE <<"443">>,
                                    1, "Application accessing data store") ] ])
    IN  igwFlows \o albFlows \o dataFlows

createBusinessFlowLinks(resources, nodes) ==
    LET nodeIds == {nodes[i].id : i \in 1..Len(nodes)}
        trafficFlows == identifyTrafficFlows(resources, nodeIds)
    IN  [ i \in 1..Len(trafficFlows) |->
            LET flow == trafficFlows[i]
            IN  [ source |-> flow.sourceId, target |-> flow.targetId, type |-> flow.type,
                  value |-> flow.weight, flowType |-> flow.flowType,
                  isMainPath |-> flow.isMainPath, protocols |-> flow.protocols,
                  ports |-> flow.ports, metadata |-> flow.metadata ] ]

\* while (true) { nextLink = links.find(source is current, target not visited) ... }
RECURSIVE TraceFrom(_, _, _, _)
TraceFrom(currentNode, links, path, visited) ==
    LET n == FindIndex(links, LAMBDA l : l.source = currentNode /\ l.target \notin visited)
    IN  IF n = 0 THEN path
        ELSE TraceFrom(links[n].target, links, Append(path, links[n].target),
                       visited \cup {links[n].target})

traceFlowPath(startNodeId, links, nodes) ==
    TraceFrom(startNodeId, links, <<startNodeId>>, {startNodeId})

\* an identification that keeps the path of every entry point
identifyAllEntryPaths(nodes, links) ==
    LET entryPoints == SelectSeq(nodes, LAMBDA n : n.flowLayer = "entry")
    IN  [ i \in 1..Len(entryPoints) |->
            [ id |-> <<"flow-", entryPoints[i].id>>,
              name |-> <<"Traffic Flow via ", entryPoints[i].name>>,
              nodes |-> traceFlowPath(entryPoints[i].id, links, nodes) ] ]

identifyFlowPaths(nodes, links) ==
    LET entryPoints == SelectSeq(nodes, LAMBDA n : n.flowLayer = "entry")
        traced == [ i \in 1..Len(entryPoints) |->
                      [ id |-> <<"flow-", entryPoints[i].id>>,
                        name |-> <<"Traffic Flow via ", entryPoints[i].name>>,
                        nodes |-> traceFlowPath(entryPoints[i].id, links, nodes) ] ]
    IN  SelectSeq(traced, LAMBDA p : Len(p.nodes) > 1)

calculateResourceCounts(resources) ==
    [ t \in ResourceType |-> Cardinality({i \in 1..Len(resources) : resources[i].type = t}) ]

calculateLayerCounts(nodes) ==
    [ l \in GATEWAY..FOUNDATION |-> Cardinality({i \in 1..Len(nodes) : nodes[i].layer = l}) ]

extractInstanceType(node) ==
    CASE node.type = EC2_INSTANCE -> OrElse(node.metadata.instanceType, "t3.medium")
      [] node.type = RDS_INSTANCE -> OrElse(node.metadata.instanceClass, "db.t3.micro")
      [] OTHER -> Undefined

----------------------------------------------------------------------------
(* services/graph-builder.ts: the infrastructure views                     *)

determineGroup(resource) ==
    IF Truthy(resource.vpcId) THEN resource.vpcId
    ELSE IF resource.type \in {S3_BUCKET, IAM_ROLE, LAMBDA_FUNCTION} THEN "global"
    ELSE resource.region

\* a layering by traffic role: route tables with the network foundation
determineLayerByRole(resourceType) ==
    CASE resourceType \in {INTERNET_GATEWAY, NAT_GATEWAY} -> GATEWAY
      [] resourceType = ELASTIC_LOAD_BALANCER -> LOAD_BALANCER
      [] resourceType \in {EC2_INSTANCE, LAMBDA_FUNCTION, EKS_CLUSTER, EKS_NODEGROUP,
                           EKS_FARGATE_PROFILE} -> COMPUTE
      [] resourceType \in {RDS_INSTANCE, S3_BUCKET, EBS_VOLUME} -> DATA
      [] OTHER -> FOUNDATION

determineLayer(resourceType) ==
    CASE resourceType \in {INTERNET_GATEWAY, NAT_GATEWAY} -> GATEWAY
      [] resourceType \in {ELASTIC_LOAD_BALANCER, ROUTE_TABLE} -> LOAD_BALANCER
      [] resourceType \in {EC2_INSTANCE, LAMBDA_FUNCTION, EKS_CLUSTER, EKS_NODEGROUP,
                           EKS_FARGATE_PROFILE} -> COMPUTE
      [] resourceType \in {RDS_INSTANCE, S3_BUCKET, EBS_VOLUME} -> DATA
      [] resourceType \in {VPC, SUBNET, SECURITY_GROUP, NETWORK_INTERFACE, IAM_ROLE} -> FOUNDATION
      [] OTHER -> FOUNDATION

\* metadata is a new object: the resource's metadata and six more keys
createNodes(resources) ==
    [ i \in 1..Len(resources) |->
        LET resource == resources[i]
        IN  [ id |-> resource.id, name |-> resource.name, type |-> resource.type,
              group |-> determineGroup(resource),
              layer |-> determineLayer(resource.type),
              metadata |-> [ resource.metadata EXCEPT
                               !.region = resource.region, !.arn = resource.arn,
                               !.tags = resource.tags, !.vpcId = resource.vpcId,
                               !.subnetId = resource.subnetId,
                               !.availabilityZone = resource.availabilityZone ] ] ]

Relationship(sourceId, targetId, type, key, value) ==
    [ sourceId |-> sourceId, targetId |-> targetId, type |-> type,
      metadata |-> [key |-> key, value |-> value] ]

OfType(resources, type) == SelectSeq(resources, LAMBDA r : r.type = type)

findVpcContainments(resources) ==
    LET vpcs == OfType(resources, VPC)
    IN  Flatten([ i \in 1..Len(vpcs) |->
            LET vpcResources == SelectSeq(resources, LAMBDA r : r.vpcId = vpcs[i].id /\ r.id # vpcs[i].id)
            IN  [ j \in 1..Len(vpcResources) |->
                    Relationship(vpcs[i].id, vpcResources[j].id, CONTAINS, "vpcId", vpcs[i].id) ] ])

findSubnetContainments(resources) ==
    LET subnets == OfType(resources, SUBNET)
    IN  Flatten([ i \in 1..Len(subnets) |->
            LET subnetResources == SelectSeq(resources, LAMBDA r :
                                       r.subnetId = subnets[i].id /\ r.id # subnets[i].id)
            IN  [ j \in 1..Len(subnetResources) |->
                    Relationship(subnets[i].id, subnetResources[j].id, CONTAINS,
                                 "subnetId", subnets[i].id) ] ])

findSecurityGroupAssociations(resources) ==
    LET instances == OfType(resources, EC2_INSTANCE)
    IN  Flatten([ i \in 1..Len(instances) |->
            LET securityGroupIds == instances[i].metadata.securityGroupIds
            IN  [ j \in 1..Len(securityGroupIds) |->
                    Relationship(securityGroupIds[j], instances[i].id, ASSOCIATED_WITH,
                                 "associationType", "security-group") ] ])

findInstanceAttachments(resources) ==
    LET volumes == OfType(resources, EBS_VOLUME)
        networkInterfaces == OfType(resources, NETWORK_INTERFACE)
        ofVolumes == Flatten([ i \in 1..Len(volumes) |->
            LET attachments == SelectSeq(volumes[i].metadata.attachments,
                                         LAMBDA a : Truthy(a.instanceId))
            IN  [ j \in 1..Len(attachments) |->
                    Relationship(volumes[i].id, attachments[j].instanceId, ATTACHED_TO,
                                 "attachmentType", "ebs-volume") ] ])
        attached == SelectSeq(networkInterfaces, LAMBDA e : Truthy(e.metadata.attachment.instanceId))
        ofInterfaces == [ i \in 1..Len(attached) |->
                            Relationship(attached[i].id, attached[i].metadata.attachment.instanceId,
                                         ATTACHED_TO, "attachmentType", "network-interface") ]
    IN  ofVolumes \o ofInterfaces

findLoadBalancerRelationships(resources) ==
    LET loadBalancers == OfType(resources, ELASTIC_LOAD_BALANCER)
        subnets == OfType(resources, SUBNET)
    IN  Flatten([ i \in 1..Len(loadBalancers) |->
            LET lb == loadBalancers[i]
                used == SelectSeq(subnets, LAMBDA subnet :
                            /\ lb.vpcId = subnet.vpcId
                            /\ SeqIncludes(lb.metadata.availabilityZones,
                                           IF Truthy(subnet.availabilityZone)
                                           THEN subnet.availabilityZone ELSE ""))
            IN  [ j \in 1..Len(used) |->
                    Relationship(lb.id, used[j].id, USES, "usageType", "load-balancer-subnet") ] ])

\* arn.match(/arn:aws:iam::\d+:<kind>\/(.+)/): the captured name, Undefined without a match
DigitAccounts == {"123456789012"}

IamArnMatch(arn, kind) ==
    IF /\ Len(arn) = 4
       /\ arn[1] = "arn:aws:iam"
       /\ arn[2] \in DigitAccounts
       /\ arn[3] = kind
       /\ arn[4] # ""
    THEN arn[4] ELSE Undefined

findIAMRoleAssociations(resources) ==
    LET instances == OfType(resources, EC2_INSTANCE)
        roles == OfType(resources, IAM_ROLE)
        lambdaFunctions == OfType(resources, LAMBDA_FUNCTION)
        roleOf(roleName) == FindIndex(roles, LAMBDA r : r.name = roleName)
        profiled == SelectSeq(instances, LAMBDA r :
                        /\ IamArnMatch(r.metadata.iamInstanceProfile, "instance-profile") # Undefined
                        /\ roleOf(IamArnMatch(r.metadata.iamInstanceProfile, "instance-profile")) # 0)
        withRole == SelectSeq(lambdaFunctions, LAMBDA r :
                        /\ IamArnMatch(r.metadata.role, "role") # Undefined
                        /\ roleOf(IamArnMatch(r.metadata.role, "role")) # 0)
    IN  [ i \in 1..Len(profiled) |->
            Relationship(roles[roleOf(IamArnMatch(profiled[i].metadata.iamInstanceProfile,
                                                  "instance-profile"))].id,
                         profiled[i].id, ASSOCIATED_WITH, "associationType", "iam-role") ]
        \o
        [ i \in 1..Len(withRole) |->
            Relationship(roles[roleOf(IamArnMatch(withRole[i].metadata.role, "role"))].id,
                         withRole[i].id, ASSOCIATED_WITH, "associationType", "iam-role") ]

findGatewayRelationships(resources) ==
    LET internetGateways == SelectSeq(OfType(resources, INTERNET_GATEWAY), LAMBDA r : Truthy(r.vpcId))
        natGateways == SelectSeq(OfType(resources, NAT_GATEWAY), LAMBDA r : Truthy(r.subnetId))
    IN  [ i \in 1..Len(internetGateways) |->
            Relationship(internetGateways[i].id, internetGateways[i].vpcId, ATTACHED_TO,
                         "attachmentType", "internet-gateway") ]
        \o
        [ i \in 1..Len(natGateways) |->
            Relationship(natGateways[i].id, natGateways[i].subnetId, USES,
                         "usageType", "nat-gateway-subnet") ]

findRouteTableAssociations(resources) ==
    LET routeTables == SelectSeq(OfType(resources, ROUTE_TABLE), LAMBDA r : Truthy(r.vpcId))
    IN  [ i \in 1..Len(routeTables) |->
            Relationship(routeTables[i].id, routeTables[i].vpcId, MEMBER_OF,
                         "membershipType", "route-table") ]

TagOf(tags, key) == IF key \in DOMAIN tags THEN tags[key] ELSE Undefined

\* a discovery that takes the clusterName of a nodegroup or profile for the
\* id of its cluster, without looking for the cluster
findEKSRelationshipsByName(resources) ==
    LET eksNodegroups == OfType(resources, EKS_NODEGROUP)
        eksFargateProfiles == OfType(resources, EKS_FARGATE_PROFILE)
        ec2Instances == OfType(resources, EC2_INSTANCE)
    IN  [ i \in 1..Len(eksNodegroups) |->
            Relationship(eksNodegroups[i].metadata.clusterName, eksNodegroups[i].id, MANAGES,
                         "relationshipType", "cluster-nodegroup") ]
        \o
        [ i \in 1..Len(eksFargateProfiles) |->
            Relationship(eksFargateProfiles[i].metadata.clusterName, eksFargateProfiles[i].id, MANAGES,
                         "relationshipType", "cluster-fargate") ]
        \o
        Flatten([ i \in 1..Len(eksNodegroups) |->
            LET nodegroup == eksNodegroups[i]
                members == SelectSeq(ec2Instances, LAMBDA instance :
                    /\ TagOf(instance.tags, <<"kubernetes.io/cluster/", nodegroup.metadata.clusterName>>) = "owned"
                    /\ TagOf(instance.tags, <<"eks:nodegroup-name">>) = nodegroup.name)
            IN  [ j \in 1..Len(members) |->
                    Relationship(nodegroup.id, members[j].id, RUNS_ON,
                                 "relationshipType", "nodegroup-instance") ] ])

findEKSRelationships(resources) ==
    LET eksClusters == OfType(resources, EKS_CLUSTER)
        eksNodegroups == OfType(resources, EKS_NODEGROUP)
        eksFargateProfiles == OfType(resources, EKS_FARGATE_PROFILE)
        ec2Instances == OfType(resources, EC2_INSTANCE)
        clusterOf(r) == FindIndex(eksClusters, LAMBDA c : c.name = r.metadata.clusterName)
        managedGroups == SelectSeq(eksNodegroups, LAMBDA r : clusterOf(r) # 0)
        managedProfiles == SelectSeq(eksFargateProfiles, LAMBDA r : clusterOf(r) # 0)
    IN  [ i \in 1..Len(managedGroups) |->
            Relationship(eksClusters[clusterOf(managedGroups[i])].id, managedGroups[i].id, MANAGES,
                         "relationshipType", "cluster-nodegroup") ]
        \o
        [ i \in 1..Len(managedProfiles) |->
            Relationship(eksClusters[clusterOf(managedProfiles[i])].id, managedProfiles[i].id, MANAGES,
                         "relationshipType", "cluster-fargate") ]
        \o
        Flatten([ i \in 1..Len(eksNodegroups) |->
            LET nodegroup == eksNodegroups[i]
                members == SelectSeq(ec2Instances, LAMBDA instance :
                    /\ TagOf(instance.tags, <<"kubernetes.io/cluster/", nodegroup.metadata.clusterName>>) = "owned"
                    /\ TagOf(instance.tags, <<"eks:nodegroup-name">>) = nodegroup.name)
            IN  [ j \in 1..Len(members) |->
                    Relationship(nodegroup.id, members[j].id, RUNS_ON,
                                 "relationshipType", "nodegroup-instance") ] ])

\* the relationships are collected in a new array on every call
discoverRelationships(resources) ==
    findVpcContainments(resources)
    \o findSubnetContainments(resources)
    \o findSecurityGroupAssociations(resources)
    \o findInstanceAttachments(resources)
    \o findLoadBalancerRelationships(resources)
    \o findIAMRoleAssociations(resources)
    \o findGatewayRelationships(resources)
    \o findRouteTableAssociations(resources)
    \o findEKSRelationships(resources)

getRelationshipStrength(type) ==
    CASE type \in {CONTAINS, MANAGES} -> 3
      [] type \in {ATTACHED_TO, ASSOCIATED_WITH, RUNS_ON} -> 2
      [] OTHER -> 1

createLinks(resources) ==
    LET relationships == discoverRelationships(resources)
    IN  [ i \in 1..Len(relationships) |->
            [ source |-> relationships[i].sourceId, target |-> relationships[i].targetId,
              type |-> relationships[i].type,
              value |-> getRelationshipStrength(relationships[i].type),
              metadata |-> relationships[i].metadata ] ]

\* new Set / Array.from: the distinct elements in the order of their first occurrence
Distinct(s) == SelectSeq([i \in 1..Len(s) |-> [at |-> i, v |-> s[i]]],
                         LAMBDA e : \A j \in 1..(e.at - 1) : s[j] # e.v)

Values(s) == [i \in 1..Len(s) |-> s[i].v]

extractPortsFromRules(rules) ==
    LET ported == SelectSeq(rules, LAMBDA rule : rule.fromPort # 0 /\ rule.toPort # 0)
    IN  Values(Distinct([ i \in 1..Len(ported) |->
                            IF ported[i].fromPort = ported[i].toPort
                            THEN <<ported[i].fromPort>>
                            ELSE <<ported[i].fromPort, ported[i].toPort>> ]))

extractProtocolsFromRules(rules) ==
    Values(Distinct([i \in 1..Len(rules) |-> rules[i].protocol]))

NoSecurityInfo == [kind |-> "none"]

\* The security group lookup holds the detailedRules of every resource of
\* type SECURITY_GROUP (the last one of an id wins).  In the modelled
\* accounts an instance's securityGroupIds never name a network ACL.
createSecurityAwareLinks(resources) ==
    LET relationships == discoverRelationships(resources)
        groups == OfType(resources, SECURITY_GROUP)
        lookup(id) == LET n == FindIndex([i \in 1..Len(groups) |-> groups[Len(groups) + 1 - i]],
                                         LAMBDA g : g.id = id)
                      IN  IF n = 0 THEN NoRules ELSE groups[Len(groups) + 1 - n].metadata.detailedRules
        known(id) == \E i \in 1..Len(groups) : groups[i].id = id
    IN  [ i \in 1..Len(relationships) |->
            LET rel == relationships[i]
                sgRules == lookup(rel.sourceId)
            IN  [ source |-> rel.sourceId, target |-> rel.targetId, type |-> rel.type,
                  value |-> 1, metadata |-> rel.metadata,
                  securityInfo |->
                    IF /\ rel.type = ASSOCIATED_WITH
                       /\ rel.metadata = [key |-> "associationType", value |-> "security-group"]
                       /\ known(rel.sourceId)
                    THEN [ kind |-> "securityInfo",
                           allowedPorts |-> extractPortsFromRules(sgRules.inbound \o sgRules.outbound),
                           protocols |-> extractProtocolsFromRules(sgRules.inbound \o sgRules.outbound),
                           direction |-> "bidirectional",
                           securityGroupIds |-> <<rel.sourceId>> ]
                    ELSE NoSecurityInfo ] ]

extractSecurityGroupDetails(resources) ==
    LET groups == OfType(resources, SECURITY_GROUP)
    IN  [ i \in 1..Len(groups) |->
            [ groupId |-> groups[i].id, groupName |-> groups[i].name,
              description |-> OrElse(groups[i].metadata.description, ""),
              vpcId |-> OrElse(groups[i].vpcId, ""),
              inboundRules |-> groups[i].metadata.detailedRules.inbound,
              outboundRules |-> groups[i].metadata.detailedRules.outbound ] ]

\* .filter(r => r.metadata.isDefault !== undefined)
extractNetworkAclDetails(resources) ==
    LET nacls == SelectSeq(resources, LAMBDA r : r.metadata.isDefault # Undefined)
    IN  [ i \in 1..Len(nacls) |->
            [ networkAclId |-> nacls[i].id, vpcId |-> OrElse(nacls[i].vpcId, ""),
              isDefault |-> nacls[i].metadata.isDefault = "true",
              subnetIds |-> nacls[i].metadata.associatedSubnets,
              rules |-> nacls[i].metadata.detailedRules.entries ] ]

countPublicResources(resources) ==
    Cardinality({ i \in 1..Len(resources) :
        \/ resources[i].type \in {ELASTIC_LOAD_BALANCER, INTERNET_GATEWAY, S3_BUCKET}
        \/ resources[i].type = EC2_INSTANCE /\ Truthy(resources[i].metadata.publicIpAddress) })

\* scanTimestamp and the layout rectangles (zoneGroups) are left out
buildGraph(resources, region) ==
    LET nodes == createNodes(resources)
    IN  [ nodes |-> nodes,
          links |-> createLinks(resources),
          metadata |-> [ region |-> region,
                         totalResources |-> Len(resources),
                         resourceCounts |-> calculateResourceCounts(resources),
                         layerCounts |-> calculateLayerCounts(nodes) ] ]

buildSecurityAwareGraph(resources, region) ==
    LET nodes == createNodes(resources)
        securityGroups == extractSecurityGroupDetails(resources)
        networkAcls == extractNetworkAclDetails(resources)
    IN  [ viewMode |-> INFRASTRUCTURE_DETAIL,
          nodes |-> nodes,
          links |-> createSecurityAwareLinks(resources),
          securityGroups |-> securityGroups,
          networkAcls |-> networkAcls,
          metadata |-> [ region |-> region,
                         totalResources |-> Len(resources),
                         resourceCounts |-> calculateResourceCounts(resources),
                         layerCounts |-> calculateLayerCounts(nodes),
                         securitySummary |->
                             [ totalSecurityGroups |-> Len(securityGroups),
                               totalNacls |-> Len(networkAcls),
                               publicResources |-> countPublicResources(resources) ] ] ]

----------------------------------------------------------------------------
(* services/pricing-service.ts.  Amounts are in 1/10000 dollar; an amount  *)
(* a pricing record does not carry is NoAmount.  `null` is NoPricing.      *)

NoAmount == 0 - 1

NoPricing == [kind |-> "null"]

Pricing(perHour, perMonth, perGB, unit) ==
    [ kind |-> "pricing", pricePerHour |-> perHour, pricePerMonth |-> perMonth,
      pricePerGB |-> perGB, currency |-> "USD", unit |-> unit ]

\* The outcome of one GetProducts call: "price" (a price list with a positive
\* on-demand price), "none" (an empty or unusable price list), "error" (the
\* call throws).
PriceOutcome == {"price", "none", "error"}

\* The first positive on-demand price the pricing API lists for a product, and its unit.
ApiUnitPrice(resourceType, instanceType) ==
    CASE resourceType = EC2_INSTANCE -> IF instanceType = "t3.large" THEN 832 ELSE 416
      [] resourceType = RDS_INSTANCE -> IF instanceType = "db.m5.large" THEN 1710 ELSE 170
      [] resourceType = EKS_CLUSTER -> 1000
      [] resourceType = ELASTIC_LOAD_BALANCER -> 225
      [] resourceType = NAT_GATEWAY -> 450
      [] resourceType = S3_BUCKET -> 230
      [] OTHER -> 800

ApiUnit(resourceType) == IF resourceType \in {S3_BUCKET, EBS_VOLUME} THEN "GB-Mo" ELSE "Hrs"

extractPricing(outcome, pricePerUnit, unit) ==
    IF outcome # "price" \/ pricePerUnit <= 0 THEN NoPricing
    ELSE IF unit = "GB-Mo" THEN Pricing(NoAmount, pricePerUnit * 50, pricePerUnit, unit)
    ELSE Pricing(pricePerUnit, pricePerUnit * 24 * 30, NoAmount, unit)

\* getEC2Pricing ... getEBSPricing: the value a failed call is replaced by
PricingFallback(resourceType) ==
    CASE resourceType = EKS_CLUSTER -> Pricing(1000, 730000, NoAmount, "Hrs")
      [] resourceType = ELASTIC_LOAD_BALANCER -> Pricing(225, 164250, NoAmount, "Hrs")
      [] resourceType = NAT_GATEWAY -> Pricing(450, 328500, NoAmount, "Hrs")
      [] resourceType = S3_BUCKET -> Pricing(NoAmount, 50000, 230, "GB-Mo")
      [] resourceType = EBS_VOLUME -> Pricing(NoAmount, 80000, 1000, "GB-Mo")
      [] OTHER -> NoPricing

PricedTypes ==
    {EC2_INSTANCE, EKS_CLUSTER, RDS_INSTANCE, ELASTIC_LOAD_BALANCER, NAT_GATEWAY, S3_BUCKET, EBS_VOLUME}

PricingKey(resourceType, region, instanceType) ==
    <<resourceType, region, OrElse(instanceType, "default")>>

\* new AwsPricingService(region): the cache is empty and cacheExpiry is the
\* construction time, so nothing in it is valid yet.
NewPricingService(region) ==
    [ pricingRegion |-> IF region \in {"us-east-1", "eu-central-1", "ap-south-1"} THEN region ELSE "us-east-1",
      pricingCache |-> <<>>, cacheFresh |-> FALSE ]

CacheHit(service, key) == key \in DOMAIN service.pricingCache /\ service.cacheFresh

\* a lookup that resolves with the error of the GetProducts call instead of
\* a fallback price or null
getResourcePricingUncaught(resourceType, region, instanceType, outcome) ==
    IF resourceType \notin PricedTypes THEN NoPricing
    ELSE IF outcome = "error"
         THEN [ kind |-> "error", pricePerHour |-> NoAmount, pricePerMonth |-> NoAmount,
                pricePerGB |-> NoAmount, currency |-> "USD", unit |-> Undefined ]
    ELSE extractPricing(outcome, ApiUnitPrice(resourceType, instanceType), ApiUnit(resourceType))

\* getResourcePricing after a cache miss: the switch over the resource type,
\* with `outcome` the outcome of the GetProducts call it makes.
getResourcePricing(resourceType, region, instanceType, outcome) ==
    IF resourceType \notin PricedTypes THEN NoPricing
    ELSE IF outcome = "error" THEN PricingFallback(resourceType)
    ELSE extractPricing(outcome,
                        ApiUnitPrice(resourceType,
                                     CASE resourceType = EC2_INSTANCE -> OrElse(instanceType, "t3.medium")
                                       [] resourceType = RDS_INSTANCE -> OrElse(instanceType, "db.t3.micro")
                                       [] OTHER -> instanceType),
                        ApiUnit(resourceType))

\* One getBulkResourcePricing call on `service` for the list `toPrice`, the
\* GetProducts call of entry i ending with outcomes[i], the entries completing
\* in the order `order` (a permutation of the indices).  Every entry looks
\* into the cache before any call completes.  The result is the service
\* afterwards and the ResourcePricingMap.
RECURSIVE BulkFrom(_, _, _, _, _, _)
BulkFrom(service0, toPrice, outcomes, order, n, acc) ==
    IF n > Len(order) THEN acc
    ELSE LET i == order[n]
             e == toPrice[i]
             key == PricingKey(e.type, e.region, e.instanceType)
             pricing == IF CacheHit(service0, key) THEN service0.pricingCache[key]
                        ELSE getResourcePricing(e.type, e.region, e.instanceType, outcomes[i])
             cached == pricing # NoPricing /\ ~CacheHit(service0, key)
             put(f) == [k \in DOMAIN f \cup {key} |-> IF k = key THEN pricing ELSE f[k]]
         IN  BulkFrom(service0, toPrice, outcomes, order, n + 1,
                 [ service |-> IF cached
                               THEN [acc.service EXCEPT !.pricingCache = put(acc.service.pricingCache),
                                                        !.cacheFresh = TRUE]
                               ELSE acc.service,
                   results |-> IF pricing # NoPricing THEN put(acc.results) ELSE acc.results ])

getBulkResourcePricing(service, toPrice, outcomes, order) ==
    BulkFrom(service, toPrice, outcomes, order, 1, [service |-> service, results |-> <<>>])

\* the entries of a bulk request for which a GetProducts call is made
PricingCalls(service, toPrice) ==
    { i \in 1..Len(toPrice) :
        /\ toPrice[i].type \in PricedTypes
        /\ ~CacheHit(service, PricingKey(toPrice[i].type, toPrice[i].region, toPrice[i].instanceType)) }

----------------------------------------------------------------------------
(* graph-builder.ts: fetchPricingForNodes and buildBusinessFlowGraph       *)

NewGraphBuilder(region) == [pricingService |-> NewPricingService(region)]

ResourcesToPrice(nodes, region) ==
    [ i \in 1..Len(nodes) |->
        [type |-> nodes[i].type, region |-> region, instanceType |-> extractInstanceType(nodes[i])] ]

\* pricingData: the bulk pricing of the node's key and the node's instance
\* type, under the node's id
fetchPricingForNodes(nodes, region, bulkPricing) ==
    LET priced == { i \in 1..Len(nodes) :
                      PricingKey(nodes[i].type, region, extractInstanceType(nodes[i])) \in DOMAIN bulkPricing }
        entry(i) == LET pricing == bulkPricing[PricingKey(nodes[i].type, region, extractInstanceType(nodes[i]))]
                    IN  [ kind |-> pricing.kind, pricePerHour |-> pricing.pricePerHour,
                          pricePerMonth |-> pricing.pricePerMonth, pricePerGB |-> pricing.pricePerGB,
                          currency |-> pricing.currency, unit |-> pricing.unit,
                          instanceType |-> extractInstanceType(nodes[i]) ]
        lastOf(id) == CHOOSE i \in priced : nodes[i].id = id /\ \A j \in priced : nodes[j].id = id => j <= i
    IN  [ id \in {nodes[i].id : i \in priced} |-> entry(lastOf(id)) ]

\* One container per VPC id that is the vpcId of a resource, in the order of
\* first occurrence, when some node's metadata.vpcId is that id.  The
\* constant bounds and style of a container are left out.
createContainerGroups(resources, nodes) ==
    LET inVpc == SelectSeq(resources, LAMBDA r : Truthy(r.vpcId))
        vpcIds == Values(Distinct([i \in 1..Len(inVpc) |-> inVpc[i].vpcId]))
        container(vpcId) ==
            LET vpcResources == SelectSeq(resources, LAMBDA r : r.vpcId = vpcId)
                vpc == FindIndex(vpcResources, LAMBDA r : r.type = VPC)
                contained == SelectSeq(nodes, LAMBDA n : n.metadata.vpcId = vpcId)
                name == IF vpc # 0 /\ Truthy(vpcResources[vpc].name) THEN vpcResources[vpc].name ELSE vpcId
            IN  [ id |-> vpcId, name |-> name, type |-> "vpc",
                  label |-> [ text |-> <<"VPC: ", name>>,
                              subtext |-> IF vpc # 0 THEN vpcResources[vpc].metadata.cidrBlock
                                          ELSE Undefined ],
                  containedNodes |-> [i \in 1..Len(contained) |-> contained[i].id] ]
        all == [i \in 1..Len(vpcIds) |-> container(vpcIds[i])]
    IN  SelectSeq(all, LAMBDA c : Len(c.containedNodes) > 0)

buildSecurityContext(resources, nodes) ==
    LET exposed == SelectSeq(nodes, LAMBDA n : n.publicAccess)
        public == SelectSeq(resources, hasPublicAccess)
        critical == SelectSeq(nodes, LAMBDA n : n.isBusinessCritical /\ n.flowLayer = "compute")
    IN  [ exposedServices |-> [i \in 1..Len(exposed) |-> exposed[i].id],
          publicResources |-> [i \in 1..Len(public) |-> public[i].id],
          securityGroups |-> extractSecurityGroupDetails(resources),
          criticalPaths |-> [i \in 1..Len(critical) |-> critical[i].id] ]

\* a business flow graph whose links are the infrastructure relationships
FlowGraphOfRelationships(resources, region) ==
    LET businessNodes == createBusinessFlowNodes(resources)
        businessLinks == createLinks(resources)
    IN  [ viewMode |-> BUSINESS_FLOW,
          nodes |-> businessNodes,
          links |-> businessLinks,
          containers |-> createContainerGroups(resources, businessNodes),
          flowPaths |-> identifyFlowPaths(businessNodes, businessLinks),
          securityContext |-> buildSecurityContext(resources, businessNodes),
          metadata |-> [ region |-> region,
                         totalResources |-> Len(businessNodes),
                         resourceCounts |-> calculateResourceCounts(resources),
                         layerCounts |-> calculateLayerCounts(businessNodes) ] ]

\* buildBusinessFlowGraph up to its await: everything but pricingData
BusinessFlowGraph(resources, region) ==
    LET businessNodes == createBusinessFlowNodes(resources)
        businessLinks == createBusinessFlowLinks(resources, businessNodes)
    IN  [ viewMode |-> BUSINESS_FLOW,
          nodes |-> businessNodes,
          links |-> businessLinks,
          containers |-> createContainerGroups(resources, businessNodes),
          flowPaths |-> identifyFlowPaths(businessNodes, businessLinks),
          securityContext |-> buildSecurityContext(resources, businessNodes),
          metadata |-> [ region |-> region,
                         totalResources |-> Len(businessNodes),
                         resourceCounts |-> calculateResourceCounts(resources),
                         layerCounts |-> calculateLayerCounts(businessNodes) ] ]

\* a build that returns only the nodes it has a price for
buildPricedFlowGraph(resources, region, bulkPricing) ==
    LET g == BusinessFlowGraph(resources, region)
        pricingData == fetchPricingForNodes(g.nodes, region, bulkPricing)
    IN  [ viewMode |-> g.viewMode,
          nodes |-> SelectSeq(g.nodes, LAMBDA n : n.id \in DOMAIN pricingData),
          links |-> g.links, containers |-> g.containers, flowPaths |-> g.flowPaths,
          securityContext |-> g.securityContext, metadata |-> g.metadata,
          pricingData |-> pricingData ]

\* the BusinessFlowGraphData the promise resolves with
buildBusinessFlowGraph(resources, region, bulkPricing) ==
    LET g == BusinessFlowGraph(resources, region)
    IN  [ viewMode |-> g.viewMode, nodes |-> g.nodes, links |-> g.links,
          containers |-> g.containers, flowPaths |-> g.flowPaths,
          securityContext |-> g.securityContext, metadata |-> g.metadata,
          pricingData |-> fetchPricingForNodes(g.nodes, region, bulkPricing) ]

----------------------------------------------------------------------------
(* Bounds                                                                  *)

\* at most this many of the 18 scans have a failing AWS call (or all of them have)
MaxFailedScans == 1

\* a scan may settle while it is listed at most this many places after the
\* first scan that is still pending
MaxOvertaken == 2

\* at most this many GetProducts calls of one pricing fetch do not return a
\* price (or none of them does)
MaxPriceFaults == 1

----------------------------------------------------------------------------
(* routes/scan.ts: POST /scan                                              *)

VARIABLES
    failing,      \* the scans whose AWS call fails in this account state
    pc,           \* the handler: "idle", "scanning", "pricing", "done"
    body,         \* the request being (or last) handled
    scanner,      \* the handler's AwsResourceScanner
    results,      \* the Promise.allSettled slots of scanAllResources
    resources,    \* the handler's resource list
    graphBuilder, \* the handler's GraphBuilder
    graph,        \* the graph built so far
    responses,    \* the responses sent for the current request
    created,      \* the objects constructed for the current request
    awsCalls,     \* the number of AWS calls made for the current request
    moduleState,  \* the module-level state of the server: what outlives a request
    gbResources,  \* a caller's resource list, passed to builds
    gbOther,      \* another resource list, passed to builds as well
    gbService,    \* the pricing service of a long-lived GraphBuilder
    gbLast,       \* the last build: operation, list, builder and the graph returned
    gbFirst,      \* the first build from gbResources: operation and the graph returned
    tfNodes,      \* the nodes given to identifyFlowPaths
    tfLinks,      \* the links given to identifyFlowPaths and traceFlowPath
    tfFlowPaths,  \* what identifyFlowPaths returned
    tfPc,         \* a traceFlowPath call: "idle", "tracing", "returned"
    tfStart,      \* its startNodeId
    tfPath,       \* its path
    tfVisited,    \* its visited
    tfCurrent,    \* its currentNode
    overtaken,    \* scanAllResources called directly: a scan has settled before
                  \* a scan listed earlier
    clScanning,   \* the client: state.isScanning
    clGraphData,  \* state.graphData
    clFilters,    \* the filters of the mounted NetworkVisualization
    clDrawn,      \* the nodes and links in its svg
    clCosts,      \* the costBreakdown of the CostCalculator and the total it shows
    clScans,      \* the scan requests the client has sent
    clToggles     \* the filter controls the user has operated

pipelineVars ==
    << failing, pc, body, scanner, results, resources, graphBuilder, graph, responses,
       created, awsCalls, moduleState >>

buildVars == << gbResources, gbOther, gbService, gbLast, gbFirst >>

traceVars == << tfNodes, tfLinks, tfFlowPaths, tfPc, tfStart, tfPath, tfVisited, tfCurrent >>

scanVars == << overtaken >>

clientVars == << clScanning, clGraphData, clFilters, clDrawn, clCosts, clScans, clToggles >>

NoObject == [kind |-> "none"]

Credentials(accessKeyId, secretAccessKey, sessionToken, region) ==
    [ accessKeyId |-> accessKeyId, secretAccessKey |-> secretAccessKey,
      sessionToken |-> sessionToken, region |-> region ]

NoCredentials == Credentials(Undefined, Undefined, Undefined, Undefined)

\* A request: sent without any body, or with a JSON object that may have a
\* credentials member.
RequestBodies ==
    { [hasBody |-> FALSE, hasCredentials |-> FALSE, credentials |-> NoCredentials],
      [hasBody |-> TRUE, hasCredentials |-> FALSE, credentials |-> NoCredentials] }
    \cup { [hasBody |-> TRUE, hasCredentials |-> TRUE,
            credentials |-> Credentials(a, k, IF a = "AKIA-A" THEN "token" ELSE Undefined, r)] :
             a \in {Undefined, "", "AKIA-A", "AKIA-B", "AKIA-X"},
             k \in {Undefined, "", "secret"},
             r \in {Undefined, "", Region} }

\* express.json(): req.body of a request without a body is {}
ParseBody(request) ==
    IF request.hasBody THEN request
    ELSE [hasBody |-> TRUE, hasCredentials |-> FALSE, credentials |-> NoCredentials]

\* if (!scanRequest.credentials)
MissingCredentials(scanRequest) == ~scanRequest.hasCredentials

\* a validation that does not look at the region
MissingKeys(credentials) ==
    \/ ~Truthy(credentials.accessKeyId)
    \/ ~Truthy(credentials.secretAccessKey)

\* if (!accessKeyId || !secretAccessKey || !region)
MissingFields(credentials) ==
    \/ ~Truthy(credentials.accessKeyId)
    \/ ~Truthy(credentials.secretAccessKey)
    \/ ~Truthy(credentials.region)

PassesValidation(request) ==
    /\ ~MissingCredentials(ParseBody(request))
    /\ ~MissingFields(ParseBody(request).credentials)

Response(status, success, data, error) ==
    [status |-> status, success |-> success, data |-> data, error |-> error]

\* new AwsResourceScanner(credentials): every client gets the same awsConfig
NewScanner(credentials) ==
    [ kind |-> "AwsResourceScanner",
      region |-> credentials.region,
      awsConfig |-> [ region |-> credentials.region,
                      credentials |-> [ accessKeyId |-> credentials.accessKeyId,
                                        secretAccessKey |-> credentials.secretAccessKey,
                                        sessionToken |-> OrElse(credentials.sessionToken, Undefined) ] ] ]

\* a construction that keeps the credentials in a module-level registry
ScannerRegistered(state, credentials) == state \cup {credentials}

\* what the construction of a scanner leaves in module-level state: nothing
ScannerSideEffect(state, credentials) == state

NothingCreated == [scanner |-> FALSE, graphBuilder |-> FALSE]

\* the subsets of S with at most k elements
RECURSIVE SubsetsUpTo(_, _)
SubsetsUpTo(S, k) ==
    IF k = 0 THEN {{}}
    ELSE LET smaller == SubsetsUpTo(S, k - 1)
         IN  smaller \cup {T \cup {x} : T \in smaller, x \in S}

FailureSets == SubsetsUpTo(1..NumScans, MaxFailedScans) \cup {1..NumScans}

\* no request has been received yet
HandlerIdle ==
    /\ pc = "idle"
    /\ body = [hasBody |-> FALSE, hasCredentials |-> FALSE, credentials |-> NoCredentials]
    /\ scanner = NoObject
    /\ results = [i \in 1..NumScans |-> Pending]
    /\ resources = <<>>
    /\ graphBuilder = NoObject
    /\ graph = NoObject
    /\ responses = <<>>
    /\ created = NothingCreated
    /\ awsCalls = 0
    /\ moduleState = {}
    /\ overtaken = FALSE

\* no build has been called yet
BuilderIdle ==
    /\ gbResources = <<>>
    /\ gbOther = <<>>
    /\ gbService = NewPricingService(Region)
    /\ gbLast = NoObject
    /\ gbFirst = NoObject

\* the page before the first scan: nothing to show
ClientIdle ==
    /\ clScanning = FALSE
    /\ clGraphData = NoObject
    /\ clFilters = NoObject
    /\ clDrawn = [nodes |-> <<>>, links |-> <<>>]
    /\ clCosts = NoObject
    /\ clScans = 0
    /\ clToggles = 0

\* no flow path is being traced
TracerIdle ==
    /\ tfFlowPaths = NoObject
    /\ tfPc = "idle"
    /\ tfStart = Undefined
    /\ tfPath = <<>>
    /\ tfVisited = {}
    /\ tfCurrent = Undefined

PipelineInit ==
    /\ failing \in FailureSets
    /\ HandlerIdle
    /\ BuilderIdle
    /\ tfNodes = <<>>
    /\ tfLinks = <<>>
    /\ TracerIdle
    /\ ClientIdle

\* A request arrives while no handler is running (the client disables the
\* form while a scan is in progress) and fails validation: 400, return.
RejectRequest(request) ==
    /\ pc \in {"idle", "done"}
    /\ ~PassesValidation(request)
    /\ body' = request
    /\ responses' = << Response(400, FALSE, NoObject,
                         IF MissingCredentials(ParseBody(request))
                         THEN "Missing AWS credentials"
                         ELSE "Missing required credential fields: accessKeyId, secretAccessKey, region") >>
    /\ pc' = "done"
    /\ scanner' = NoObject
    /\ graphBuilder' = NoObject
    /\ results' = [i \in 1..NumScans |-> Pending]
    /\ resources' = <<>>
    /\ graph' = NoObject
    /\ created' = NothingCreated
    /\ awsCalls' = 0
    /\ UNCHANGED << failing, moduleState >>
    /\ UNCHANGED << buildVars, traceVars, scanVars, clientVars >>

\* A request passes validation: the scanner is constructed and
\* scanAllResources starts the 18 scans, each up to its first AWS call.
AcceptRequest(request) ==
    /\ pc \in {"idle", "done"}
    /\ PassesValidation(request)
    /\ body' = request
    /\ responses' = <<>>
    /\ scanner' = NewScanner(request.credentials)
    /\ moduleState' = ScannerSideEffect(moduleState, request.credentials)
    /\ created' = [NothingCreated EXCEPT !.scanner = TRUE]
    /\ results' = [i \in 1..NumScans |-> Pending]
    /\ awsCalls' = NumScans
    /\ resources' = <<>>
    /\ graphBuilder' = NoObject
    /\ graph' = NoObject
    /\ pc' = "scanning"
    /\ UNCHANGED failing
    /\ UNCHANGED << buildVars, traceVars, scanVars, clientVars >>

\* The AWS call of scan i answers (or fails) and the scan's promise settles.
ScanSettle(i) ==
    /\ pc = "scanning"
    /\ results[i].status = "pending"
    /\ \A j \in 1..(i - 1 - MaxOvertaken) : results[j].status # "pending"
    /\ results' = [results EXCEPT ![i] =
                     ScanSettled(i, AccountOf(scanner.awsConfig.credentials.accessKeyId),
                                 i \in failing \/ scanner.awsConfig.credentials.accessKeyId \notin KnownKeys)]
    /\ UNCHANGED << failing, pc, body, scanner, resources, graphBuilder, graph, responses,
                    created, awsCalls, moduleState >>
    /\ UNCHANGED << buildVars, traceVars, scanVars, clientVars >>

\* Promise.allSettled resolves: scanAllResources collects the values and
\* returns; the handler constructs the GraphBuilder and buildBusinessFlowGraph
\* runs up to the pricing fetch, which makes its GetProducts calls.
BuildGraph ==
    /\ pc = "scanning"
    /\ AllSettled(results)
    /\ LET collected == CollectFulfilled(results)
           region == body.credentials.region
           gb == NewGraphBuilder(region)
           g == BusinessFlowGraph(collected, region)
       IN  /\ resources' = collected
           /\ graphBuilder' = gb
           /\ graph' = g
           /\ awsCalls' = awsCalls
                  + Cardinality(PricingCalls(gb.pricingService, ResourcesToPrice(g.nodes, region)))
    /\ created' = [created EXCEPT !.graphBuilder = TRUE]
    /\ pc' = "pricing"
    /\ UNCHANGED << failing, body, scanner, results, responses, moduleState >>
    /\ UNCHANGED << buildVars, traceVars, scanVars, clientVars >>

\* the outcomes a pricing fetch with the calls `calls` may have
OutcomeSets(n, calls) ==
    LET ofCalls == { f \in [calls -> PriceOutcome] :
                       \/ Cardinality({i \in calls : f[i] # "price"}) <= MaxPriceFaults
                       \/ \A i \in calls : f[i] = "error"
                       \/ \A i \in calls : f[i] = "none" }
    IN  { [i \in 1..n |-> IF i \in calls THEN f[i] ELSE "none"] : f \in ofCalls }

Orders(n) == { [i \in 1..n |-> i], [i \in 1..n |-> n + 1 - i] }

\* The GetProducts calls have all ended: fetchPricingForNodes returns,
\* buildBusinessFlowGraph resolves and the handler sends res.json(response).
Respond ==
    /\ pc = "pricing"
    /\ LET region == body.credentials.region
           toPrice == ResourcesToPrice(graph.nodes, region)
       IN  \E order \in Orders(Len(toPrice)) :
           \E outcomes \in OutcomeSets(Len(toPrice), PricingCalls(graphBuilder.pricingService, toPrice)) :
              LET bulk == getBulkResourcePricing(graphBuilder.pricingService, toPrice, outcomes, order)
                  data == buildBusinessFlowGraph(resources, region, bulk.results)
              IN  /\ graph' = data
                  /\ responses' = Append(responses, Response(200, TRUE, data, Undefined))
    /\ pc' = "done"
    /\ scanner' = NoObject
    /\ graphBuilder' = NoObject
    /\ UNCHANGED << failing, body, results, resources, created, awsCalls, moduleState >>
    /\ UNCHANGED << buildVars, traceVars, scanVars, clientVars >>

\* The catch block of the handler (status 500) has no action: every
\* per-type scan catches the error of its AWS calls and returns [], and
\* fetchPricingForNodes catches the errors of the pricing fetch and returns
\* {}, so no outcome of an AWS call reaches it.
PipelineNext ==
    \/ \E request \in RequestBodies : RejectRequest(request)
    \/ \E request \in RequestBodies : AcceptRequest(request)
    \/ \E i \in 1..NumScans : ScanSettle(i)
    \/ BuildGraph
    \/ Respond

----------------------------------------------------------------------------
(* GraphBuilder called directly: any sequence of the three build           *)
(* operations, on a long-lived GraphBuilder or on a new one, from a        *)
(* caller's resource list or from another one.                              *)

BuildOps == {"buildGraph", "buildSecurityAwareGraph", "buildBusinessFlowGraph"}

\* what scanAllResources returns for an account when the scans in f fail
ScanOutput(acct, f) ==
    CollectFulfilled([i \in 1..NumScans |-> ScanSettled(i, acct, i \in f)])

\* a build that adds the node keys to the resource's own metadata object
ResourcesAfterInPlaceBuild(list) ==
    [ i \in 1..Len(list) |-> [list[i] EXCEPT !.metadata.region = list[i].region,
                                              !.metadata.vpcId = list[i].vpcId] ]

\* createNodes and createNodeFromResource read the resources and write to the
\* new node only; no build operation writes to the list or to a resource
ResourcesAfterBuild(list) == list

\* the resource lists given to builds: what the scanner returns for an
\* account, complete, with the resources of one scan missing, or empty
FailureShapes == {{}} \cup {{i} : i \in 1..NumScans} \cup {1..NumScans}

\* the pricing API as a build sees it: it answers every call of a fetch with
\* a price, or answers every call of it with an empty price list
BuildOutcomes(n, calls) ==
    { [i \in 1..n |-> IF i \in calls THEN o ELSE "none"] : o \in {"price", "none"} }

BuildInit ==
    /\ failing = {}
    /\ HandlerIdle
    /\ tfNodes = <<>>
    /\ tfLinks = <<>>
    /\ TracerIdle
    /\ ClientIdle
    /\ \E known \in KnownKeys : \E f \in FailureShapes :
          /\ gbResources = ScanOutput(AccountOf(known), f)
          /\ gbOther = ScanOutput(AccountOf(CHOOSE k \in KnownKeys : k # known), {})
    /\ gbService = NewPricingService(Region)
    /\ gbLast = NoObject
    /\ gbFirst = NoObject

ListOf(input) == IF input = "own" THEN gbResources ELSE gbOther

\* the bookkeeping of a build call that returned g
Built(op, input, builder, g) ==
    /\ gbLast' = [op |-> op, input |-> input, builder |-> builder, graph |-> g]
    /\ gbFirst' = IF input = "own" /\ gbFirst = NoObject
                  THEN [op |-> op, graph |-> g]
                  ELSE gbFirst
    /\ gbResources' = IF input = "own" THEN ResourcesAfterBuild(gbResources) ELSE gbResources
    /\ gbOther' = IF input = "own" THEN gbOther ELSE ResourcesAfterBuild(gbOther)
    /\ UNCHANGED << pipelineVars, traceVars, scanVars, clientVars >>

CallBuildGraph(input, builder) ==
    /\ Built("buildGraph", input, builder, buildGraph(ListOf(input), Region))
    /\ UNCHANGED gbService

CallBuildSecurityAwareGraph(input, builder) ==
    /\ Built("buildSecurityAwareGraph", input, builder, buildSecurityAwareGraph(ListOf(input), Region))
    /\ UNCHANGED gbService

\* buildBusinessFlowGraph from the call to the resolution of its promise
CallBuildBusinessFlowGraph(input, builder) ==
    LET service == IF builder = "kept" THEN gbService ELSE NewGraphBuilder(Region).pricingService
        toPrice == ResourcesToPrice(createBusinessFlowNodes(ListOf(input)), Region)
    IN  \E outcomes \in BuildOutcomes(Len(toPrice), PricingCalls(service, toPrice)) :
           LET bulk == getBulkResourcePricing(service, toPrice, outcomes, [i \in 1..Len(toPrice) |-> i])
           IN  /\ Built("buildBusinessFlowGraph", input, builder,
                        buildBusinessFlowGraph(ListOf(input), Region, bulk.results))
               /\ gbService' = IF builder = "kept" THEN bulk.service ELSE gbService

BuildNext ==
    \/ \E input \in {"own", "other"} : \E builder \in {"kept", "new"} : CallBuildGraph(input, builder)
    \/ \E input \in {"own", "other"} : \E builder \in {"kept", "new"} :
          CallBuildSecurityAwareGraph(input, builder)
    \/ \E input \in {"own", "other"} : \E builder \in {"kept", "new"} :
          CallBuildBusinessFlowGraph(input, builder)

----------------------------------------------------------------------------
(* identifyFlowPaths and traceFlowPath on any nodes and links: the loop of *)
(* traceFlowPath runs one iteration per step.                              *)

\* the links given have at most this many elements
MaxTraceLinks == 3

TraceIds == {"n1", "n2", "n3"}

\* the node lists: three nodes with one entry point or two (the links range
\* over every pair of ids, so which of the ids are entry points is immaterial)
TraceNodeLists ==
    { << [id |-> "n1", name |-> "one", flowLayer |-> "entry"],
         [id |-> "n2", name |-> "two", flowLayer |-> l],
         [id |-> "n3", name |-> "three", flowLayer |-> "compute"] >> :
      l \in {"entry", "compute"} }

\* the link lists: any links between the nodes, self-loops, cycles and
\* duplicates included, in any order
TraceLinkLists ==
    UNION { [1..n -> [source : TraceIds, target : TraceIds]] : n \in 0..MaxTraceLinks }

TraceInit ==
    /\ failing = {}
    /\ HandlerIdle
    /\ BuilderIdle
    /\ tfNodes \in TraceNodeLists
    /\ tfLinks \in TraceLinkLists
    /\ TracerIdle
    /\ ClientIdle

\* a loop that does not look at visited
AnyLink(links, currentNode, visited) ==
    FindIndex(links, LAMBDA l : l.source = currentNode)

\* links.find(l => l.source === currentNode && !visited.has(l.target)): the
\* index of the link found, 0 when there is none
NextLink(links, currentNode, visited) ==
    FindIndex(links, LAMBDA l : l.source = currentNode /\ l.target \notin visited)

CallIdentifyFlowPaths ==
    /\ tfFlowPaths = NoObject
    /\ tfFlowPaths' = [paths |-> identifyFlowPaths(tfNodes, tfLinks)]
    /\ UNCHANGED << tfNodes, tfLinks, tfPc, tfStart, tfPath, tfVisited, tfCurrent >>
    /\ UNCHANGED << pipelineVars, buildVars, scanVars, clientVars >>

\* traceFlowPath is called: path = [startNodeId], visited = {startNodeId}
CallTraceFlowPath(startNodeId) ==
    /\ tfPc \in {"idle", "returned"}
    /\ tfPc' = "tracing"
    /\ tfStart' = startNodeId
    /\ tfPath' = <<startNodeId>>
    /\ tfVisited' = {startNodeId}
    /\ tfCurrent' = startNodeId
    /\ UNCHANGED << tfNodes, tfLinks, tfFlowPaths >>
    /\ UNCHANGED << pipelineVars, buildVars, scanVars, clientVars >>

\* one iteration that finds a link: push its target and move on to it
TraceAdvance ==
    /\ tfPc = "tracing"
    /\ NextLink(tfLinks, tfCurrent, tfVisited) # 0
    /\ LET nextLink == tfLinks[NextLink(tfLinks, tfCurrent, tfVisited)]
       IN  /\ tfPath' = Append(tfPath, nextLink.target)
           /\ tfVisited' = tfVisited \cup {nextLink.target}
           /\ tfCurrent' = nextLink.target
    /\ UNCHANGED << tfNodes, tfLinks, tfFlowPaths, tfPc, tfStart >>
    /\ UNCHANGED << pipelineVars, buildVars, scanVars, clientVars >>

\* the iteration that finds no link: break; return path
TraceReturn ==
    /\ tfPc = "tracing"
    /\ NextLink(tfLinks, tfCurrent, tfVisited) = 0
    /\ tfPc' = "returned"
    /\ UNCHANGED << tfNodes, tfLinks, tfFlowPaths, tfStart, tfPath, tfVisited, tfCurrent >>
    /\ UNCHANGED << pipelineVars, buildVars, scanVars, clientVars >>

TraceNext ==
    \/ CallIdentifyFlowPaths
    \/ \E startNodeId \in TraceIds : CallTraceFlowPath(startNodeId)
    \/ TraceAdvance
    \/ TraceReturn

----------------------------------------------------------------------------
(* scanAllResources called directly on a scanner: the 18 scans settle in   *)
(* any order the window MaxOvertaken allows.                               *)

ScanInit ==
    /\ failing \in FailureSets
    /\ HandlerIdle
    /\ BuilderIdle
    /\ tfNodes = <<>>
    /\ tfLinks = <<>>
    /\ TracerIdle
    /\ ClientIdle

\* new AwsResourceScanner(credentials).scanAllResources() up to its await:
\* the 18 scans have started
CallScanAllResources(request) ==
    /\ pc \in {"idle", "scanned"}
    /\ PassesValidation(request)
    /\ body' = request
    /\ scanner' = NewScanner(request.credentials)
    /\ results' = [i \in 1..NumScans |-> Pending]
    /\ overtaken' = FALSE
    /\ resources' = <<>>
    /\ moduleState' = ScannerSideEffect(moduleState, request.credentials)
    /\ created' = [NothingCreated EXCEPT !.scanner = TRUE]
    /\ awsCalls' = NumScans
    /\ pc' = "scanning"
    /\ UNCHANGED << failing, graphBuilder, graph, responses >>
    /\ UNCHANGED << buildVars, traceVars, clientVars >>

\* the promise of scan i settles, before or after those of the other scans
ScanCompletes(i) ==
    /\ pc = "scanning"
    /\ results[i].status = "pending"
    /\ \A j \in 1..(i - 1 - MaxOvertaken) : results[j].status # "pending"
    /\ results' = [results EXCEPT ![i] =
                     ScanSettled(i, AccountOf(scanner.awsConfig.credentials.accessKeyId),
                                 i \in failing \/ scanner.awsConfig.credentials.accessKeyId \notin KnownKeys)]
    /\ overtaken' = (overtaken \/ \E j \in 1..(i - 1) : results[j].status = "pending")
    /\ UNCHANGED << failing, pc, body, scanner, resources, graphBuilder, graph, responses,
                    created, awsCalls, moduleState >>
    /\ UNCHANGED << buildVars, traceVars, clientVars >>

\* Promise.allSettled resolves; the fulfilled values are collected and returned
ScanAllResourcesReturns ==
    /\ pc = "scanning"
    /\ AllSettled(results)
    /\ resources' = CollectFulfilled(results)
    /\ pc' = "scanned"
    /\ UNCHANGED << failing, body, scanner, results, graphBuilder, graph, responses,
                    created, awsCalls, moduleState >>
    /\ UNCHANGED << buildVars, traceVars, scanVars, clientVars >>

ScanNext ==
    \/ \E request \in RequestBodies : CallScanAllResources(request)
    \/ \E i \in 1..NumScans : ScanCompletes(i)
    \/ ScanAllResourcesReturns

----------------------------------------------------------------------------
(* client: App.tsx, components/NetworkVisualization.tsx, CostCalculator.tsx *)
(* Amounts are in 1/10000 dollar, as in the pricing service above.          *)

\* the user sends at most this many scans
MaxScans == 2

\* the user operates at most this many filter controls
MaxToggles == 3

\* AWS_PRICING[node.type] || 0
AWS_PRICING(type) ==
    CASE type = EC2_INSTANCE -> 500000
      [] type = EKS_CLUSTER -> 730000
      [] type = EKS_NODEGROUP -> 250000
      [] type = EKS_FARGATE_PROFILE -> 150000
      [] type = ELASTIC_LOAD_BALANCER -> 250000
      [] type = NAT_GATEWAY -> 450000
      [] type = S3_BUCKET -> 50000
      [] type = RDS_INSTANCE -> 450000
      [] type = EBS_VOLUME -> 100000
      [] type = LAMBDA_FUNCTION -> 80000
      [] OTHER -> 0

\* a number that is there and is not 0
TruthyAmount(amount) == amount # NoAmount /\ amount # 0

\* a cost that takes the estimate for every node
estimatedCost(data, node) == AWS_PRICING(node.type)

\* monthlyCost of a node: pricing.pricePerMonth || (pricing.pricePerHour ?
\* pricing.pricePerHour * 24 * 30 : 0) with an entry, the estimate without
monthlyCost(data, node) ==
    IF node.id \in DOMAIN data.pricingData
    THEN LET pricing == data.pricingData[node.id]
         IN  IF TruthyAmount(pricing.pricePerMonth) THEN pricing.pricePerMonth
             ELSE IF TruthyAmount(pricing.pricePerHour) THEN pricing.pricePerHour * 24 * 30
             ELSE 0
    ELSE AWS_PRICING(node.type)

\* the switch over node.type: the category a node's cost is added to
CostCategory(type) ==
    CASE type = EC2_INSTANCE -> "compute"
      [] type \in {EKS_CLUSTER, EKS_NODEGROUP, EKS_FARGATE_PROFILE} -> "containers"
      [] type \in {ELASTIC_LOAD_BALANCER, NAT_GATEWAY, INTERNET_GATEWAY} -> "networking"
      [] type \in {S3_BUCKET, EBS_VOLUME} -> "storage"
      [] type = RDS_INSTANCE -> "database"
      [] type = LAMBDA_FUNCTION -> "appServices"
      [] OTHER -> "none"

CostCategories == <<"compute", "containers", "networking", "storage", "database", "appServices">>

\* data.nodes.forEach: the costs of the nodes from index i on that go to `category`
RECURSIVE CostFrom(_, _, _)
CostFrom(data, category, i) ==
    IF i > Len(data.nodes) THEN 0
    ELSE (IF CostCategory(data.nodes[i].type) = category THEN monthlyCost(data, data.nodes[i]) ELSE 0)
         + CostFrom(data, category, i + 1)

\* Object.values(costs).reduce((sum, cost) => sum + cost, 0)
RECURSIVE SumFrom(_, _)
SumFrom(amounts, i) == IF i > Len(amounts) THEN 0 ELSE amounts[i] + SumFrom(amounts, i + 1)

\* Intl.NumberFormat currency with two fraction digits: the amount in cents,
\* rounded to the nearest cent
formatCurrency(amount) == (amount + 50) \div 100

\* the costBreakdown memo and the total the panel shows
costBreakdown(data) ==
    LET costs == [c \in 1..Len(CostCategories) |-> CostFrom(data, CostCategories[c], 1)]
        total == SumFrom(costs, 1)
    IN  [costs |-> costs, total |-> total, shown |-> formatCurrency(total)]

\* the initial filters: every layer, Object.values(ResourceType), relationships shown
InitialFilters ==
    [ layers |-> <<GATEWAY, LOAD_BALANCER, COMPUTE, DATA, FOUNDATION>>,
      serviceTypes |-> <<EC2_INSTANCE, LAMBDA_FUNCTION, EKS_CLUSTER, EKS_NODEGROUP, EKS_FARGATE_PROFILE,
                         S3_BUCKET, EBS_VOLUME, RDS_INSTANCE, VPC, SUBNET, ROUTE_TABLE,
                         INTERNET_GATEWAY, NAT_GATEWAY, SECURITY_GROUP, NETWORK_INTERFACE,
                         ELASTIC_LOAD_BALANCER, IAM_ROLE>>,
      showRelationships |-> TRUE ]

\* prev.includes(x) ? prev.filter(l => l !== x) : [...prev, x]
Toggled(list, x) ==
    IF SeqIncludes(list, x) THEN SelectSeq(list, LAMBDA l : l # x) ELSE Append(list, x)

filteredNodes(data, filters) ==
    SelectSeq(data.nodes, LAMBDA node :
        SeqIncludes(filters.layers, node.layer) /\ SeqIncludes(filters.serviceTypes, node.type))

filteredLinks(data, filters) ==
    IF filters.showRelationships
    THEN LET shown == filteredNodes(data, filters)
         IN  SelectSeq(data.links, LAMBDA link :
                 /\ \E n \in 1..Len(shown) : shown[n].id = link.source
                 /\ \E n \in 1..Len(shown) : shown[n].id = link.target)
    ELSE <<>>

\* the useEffect on [data, filters]: with no node in the data it returns
\* before it clears the svg; otherwise it clears the svg and draws
Draw(data, filters, drawn) ==
    IF Len(data.nodes) = 0 THEN drawn
    ELSE [nodes |-> filteredNodes(data, filters), links |-> filteredLinks(data, filters)]

\* the graphs a scan response carries: the business flow graph of an account,
\* of an account whose scans all failed, with every pricing call answered
\* with a price, with an empty price list, or failing
ClientGraphs ==
    { LET scanned == ScanOutput(AccountOf(key), f)
          toPrice == ResourcesToPrice(createBusinessFlowNodes(scanned), Region)
          bulk == getBulkResourcePricing(NewPricingService(Region), toPrice,
                                         [i \in 1..Len(toPrice) |-> outcome],
                                         [i \in 1..Len(toPrice) |-> i])
      IN  buildBusinessFlowGraph(scanned, Region, bulk.results) :
      key \in KnownKeys, f \in {{}, 1..NumScans}, outcome \in PriceOutcome }

ClientInit ==
    /\ failing = {}
    /\ HandlerIdle
    /\ BuilderIdle
    /\ tfNodes = <<>>
    /\ tfLinks = <<>>
    /\ TracerIdle
    /\ ClientIdle

\* handleScan up to its await: the form is disabled while a scan runs
StartScan ==
    /\ ~clScanning
    /\ clScans < MaxScans
    /\ clScanning' = TRUE
    /\ clScans' = clScans + 1
    /\ UNCHANGED << clGraphData, clFilters, clDrawn, clCosts, clToggles >>
    /\ UNCHANGED << pipelineVars, buildVars, traceVars, scanVars >>

\* the response is a success: graphData is set, and the render that follows
\* mounts the visualization with the initial filters unless one is mounted,
\* runs its effect and computes the cost breakdown
ScanSucceeds(data) ==
    /\ clScanning
    /\ clScanning' = FALSE
    /\ clGraphData' = data
    /\ clFilters' = IF clGraphData = NoObject THEN InitialFilters ELSE clFilters
    /\ clDrawn' = Draw(data, clFilters', clDrawn)
    /\ clCosts' = costBreakdown(data)
    /\ UNCHANGED << clScans, clToggles >>
    /\ UNCHANGED << pipelineVars, buildVars, traceVars, scanVars >>

\* the response is an error or the request fails: graphData is kept
ScanFails ==
    /\ clScanning
    /\ clScanning' = FALSE
    /\ UNCHANGED << clGraphData, clFilters, clDrawn, clCosts, clScans, clToggles >>
    /\ UNCHANGED << pipelineVars, buildVars, traceVars, scanVars >>

\* a filter control sets the filters; the effect runs again
Filtered(filters) ==
    /\ clGraphData # NoObject
    /\ clToggles < MaxToggles
    /\ clToggles' = clToggles + 1
    /\ clFilters' = filters
    /\ clDrawn' = Draw(clGraphData, filters, clDrawn)
    /\ UNCHANGED << clScanning, clGraphData, clCosts, clScans >>
    /\ UNCHANGED << pipelineVars, buildVars, traceVars, scanVars >>

toggleLayer(layer) ==
    Filtered([clFilters EXCEPT !.layers = Toggled(clFilters.layers, layer)])

toggleServiceType(serviceType) ==
    Filtered([clFilters EXCEPT !.serviceTypes = Toggled(clFilters.serviceTypes, serviceType)])

\* the onChange of the Show Relationships checkbox
SetShowRelationships ==
    Filtered([clFilters EXCEPT !.showRelationships = ~clFilters.showRelationships])

ClientNext ==
    \/ StartScan
    \/ \E data \in ClientGraphs : ScanSucceeds(data)
    \/ ScanFails
    \/ \E layer \in GATEWAY..FOUNDATION : toggleLayer(layer)
    \/ \E serviceType \in {EC2_INSTANCE, S3_BUCKET} : toggleServiceType(serviceType)
    \/ SetShowRelationships

vars == << pipelineVars, buildVars, traceVars, scanVars, clientVars >>

SpecScan == ScanInit /\ [][ScanNext]_vars

SpecClient == ClientInit /\ [][ClientNext]_vars

\* a running loop keeps running: its iterations are synchronous code
SpecTrace ==
    /\ TraceInit
    /\ [][TraceNext]_vars
    /\ WF_vars(TraceAdvance)
    /\ WF_vars(TraceReturn)

Spec == PipelineInit /\ [][PipelineNext]_vars

SpecBuild == BuildInit /\ [][BuildNext]_vars

----------------------------------------------------------------------------
(* Properties of the request pipeline (Spec)                               *)

\* the requests the validation has to refuse: no body, no credentials, or an
\* accessKeyId, secretAccessKey or region that is absent or empty
LacksCredentials(request) ==
    \/ ~request.hasBody
    \/ ~request.hasCredentials
    \/ request.credentials.accessKeyId \in {Undefined, ""}
    \/ request.credentials.secretAccessKey \in {Undefined, ""}
    \/ request.credentials.region \in {Undefined, ""}

Answered == pc = "done"

\* C1: a request without credentials, or whose credentials lack a non-empty
\* accessKeyId, secretAccessKey or region, is answered with 400 and
\* success=false; no scanner is created and no AWS call is made for it.
C1_InvalidRequestRefused ==
    (pc # "idle" /\ LacksCredentials(body)) =>
        /\ Answered
        /\ Len(responses) = 1
        /\ responses[1].status = 400
        /\ responses[1].success = FALSE
        /\ created = NothingCreated
        /\ scanner = NoObject
        /\ awsCalls = 0

C1_Witness ==
    /\ Answered
    /\ ~body.hasBody
    /\ Len(responses) = 1
    /\ responses[1].status = 400

\* what the scans that did not fail contribute, in the order of the scan list
SucceededResources ==
    LET key == body.credentials.accessKeyId
    IN  Flatten([ i \in 1..NumScans |->
                    IF i \in failing \/ key \notin KnownKeys THEN <<>> ELSE ScanOf(i, AccountOf(key)) ])

\* C2: scanAllResources returns the resources of every per-type scan that
\* succeeded, unchanged and complete, whichever of the 18 scans fail.
C2_SucceededScansKept ==
    (pc \in {"pricing", "done"} /\ created.scanner) => resources = SucceededResources

C2_Witness ==
    /\ pc = "pricing"
    /\ body.credentials.accessKeyId = "AKIA-A"
    /\ failing = {3}
    /\ Len(resources) > 0
    /\ \A i \in 1..Len(resources) : resources[i].type # EC2_INSTANCE

\* a graph the build has finished: it carries the pricing data
CompletedGraph(g) == g # NoObject /\ "pricingData" \in DOMAIN g

C8_TotalIsDiscovered ==
    \A n \in 1..Len(responses) :
        responses[n].success => responses[n].data.metadata.totalResources = Len(resources)

\* C10: a failure of pricing requests never fails a scan: the response is a
\* success with the nodes, links and flow paths the build had before the
\* pricing fetch, and pricingData has entries only for nodes with a price.
C10_PricingFailureTolerated ==
    [][ (pc = "pricing" /\ pc' = "done") =>
            /\ Len(responses') = 1
            /\ responses'[1].status = 200
            /\ responses'[1].success
            /\ responses'[1].data.nodes = graph.nodes
            /\ responses'[1].data.links = graph.links
            /\ responses'[1].data.flowPaths = graph.flowPaths
            /\ \A id \in DOMAIN responses'[1].data.pricingData :
                  /\ \E i \in 1..Len(graph.nodes) : graph.nodes[i].id = id
                  /\ responses'[1].data.pricingData[id].kind = "pricing" ]_vars

C10_Witness ==
    /\ Answered
    /\ Len(responses) = 1
    /\ responses[1].success
    /\ \E i \in 1..Len(responses[1].data.nodes) :
          /\ responses[1].data.nodes[i].type = EC2_INSTANCE
          /\ responses[1].data.nodes[i].id \notin DOMAIN responses[1].data.pricingData
    /\ \E i \in 1..Len(responses[1].data.nodes) :
          /\ responses[1].data.nodes[i].type = RDS_INSTANCE
          /\ responses[1].data.nodes[i].id \in DOMAIN responses[1].data.pricingData

----------------------------------------------------------------------------
(* Properties of the build operations (SpecBuild)                          *)

\* the layer table: gateways 1, load balancers and route tables 2, compute 3,
\* data 4, everything else 5
TableLayer(type) ==
    CASE type \in {INTERNET_GATEWAY, NAT_GATEWAY} -> 1
      [] type \in {ELASTIC_LOAD_BALANCER, ROUTE_TABLE} -> 2
      [] type \in {EC2_INSTANCE, LAMBDA_FUNCTION, EKS_CLUSTER, EKS_NODEGROUP, EKS_FARGATE_PROFILE} -> 3
      [] type \in {RDS_INSTANCE, S3_BUCKET, EBS_VOLUME} -> 4
      [] OTHER -> 5

\* C4: every node of every build has the layer the one table gives its
\* resource type, a number in 1..5, the same in all three views.
C4_LayerByTypeTable ==
    \A b \in {gbLast, gbFirst} \ {NoObject} :
        \A i \in 1..Len(b.graph.nodes) :
            /\ b.graph.nodes[i].layer \in 1..5
            /\ b.graph.nodes[i].layer = TableLayer(b.graph.nodes[i].type)

C4_Witness ==
    /\ gbLast # NoObject
    /\ gbFirst # NoObject
    /\ gbFirst.op = "buildBusinessFlowGraph"
    /\ gbLast.op = "buildSecurityAwareGraph"
    /\ \E i \in 1..Len(gbLast.graph.nodes) : gbLast.graph.nodes[i].type = ROUTE_TABLE
    /\ \E i \in 1..Len(gbFirst.graph.nodes) : gbFirst.graph.nodes[i].type = NAT_GATEWAY

C9_GroupIsVpcOrGlobal ==
    gbLast # NoObject =>
        \A i \in 1..Len(gbLast.graph.nodes) :
            \E j \in 1..Len(ListOf(gbLast.input)) :
                LET node == gbLast.graph.nodes[i]
                    resource == ListOf(gbLast.input)[j]
                IN  /\ resource.id = node.id
                    /\ resource.type = node.type
                    /\ \/ Truthy(resource.vpcId) /\ node.group = resource.vpcId
                       \/ node.group = "global"

\* the business-critical resources of the list given to the last build
BusinessResources == SelectSeq(ListOf(gbLast.input), isBusinessCritical)

\* C11: for every VPC id that is the vpcId of a business-flow node,
\* buildBusinessFlowGraph returns one container with that id whose
\* containedNodes are exactly the ids of the business-flow nodes of that VPC.
C11_ContainerPerVpc ==
    (gbLast # NoObject /\ gbLast.op = "buildBusinessFlowGraph") =>
        \A k \in 1..Len(BusinessResources) :
            Truthy(BusinessResources[k].vpcId) =>
                LET vpcId == BusinessResources[k].vpcId
                    members == SelectSeq(BusinessResources, LAMBDA r : r.vpcId = vpcId)
                    found == SelectSeq(gbLast.graph.containers, LAMBDA c : c.id = vpcId)
                IN  /\ Len(found) = 1
                    /\ found[1].containedNodes = [i \in 1..Len(members) |-> members[i].id]

\* C12: every business-flow node that is an Internet Gateway or a Load
\* Balancer and has an outgoing link is the start of exactly one flow path.
C12_EntryPointsHavePaths ==
    (gbLast # NoObject /\ gbLast.op = "buildBusinessFlowGraph") =>
        \A i \in 1..Len(gbLast.graph.nodes) :
            LET node == gbLast.graph.nodes[i]
            IN  ( /\ node.type \in {INTERNET_GATEWAY, ELASTIC_LOAD_BALANCER}
                  /\ \E l \in 1..Len(gbLast.graph.links) : gbLast.graph.links[l].source = node.id )
                => Cardinality({ p \in 1..Len(gbLast.graph.flowPaths) :
                                   gbLast.graph.flowPaths[p].nodes[1] = node.id }) = 1

----------------------------------------------------------------------------
(* Properties of identifyFlowPaths and traceFlowPath (SpecTrace)           *)

IsLink(a, b) == \E l \in 1..Len(tfLinks) : tfLinks[l].source = a /\ tfLinks[l].target = b

NoRepeat(path) == \A i, j \in 1..Len(path) : path[i] = path[j] => i = j

\* C13: every flow path of identifyFlowPaths starts at its entry node, has
\* at least two nodes, repeats no node, and every two consecutive nodes of it
\* are the source and the target of a link.
C13_FlowPathsAreSimplePaths ==
    tfFlowPaths # NoObject =>
        \A p \in 1..Len(tfFlowPaths.paths) :
            LET path == tfFlowPaths.paths[p]
            IN  /\ Len(path.nodes) >= 2
                /\ \E n \in 1..Len(tfNodes) :
                      /\ tfNodes[n].flowLayer = "entry"
                      /\ tfNodes[n].id = path.nodes[1]
                      /\ path.id = <<"flow-", tfNodes[n].id>>
                /\ NoRepeat(path.nodes)
                /\ \A i \in 1..(Len(path.nodes) - 1) : IsLink(path.nodes[i], path.nodes[i + 1])

\* entry points on a cycle of three links, each with its path
C13_Witness ==
    /\ tfFlowPaths # NoObject
    /\ Len(tfFlowPaths.paths) >= 2
    /\ Len(tfFlowPaths.paths[1].nodes) = 3
    /\ IsLink(tfFlowPaths.paths[1].nodes[3], tfFlowPaths.paths[1].nodes[1])

\* the distinct node ids of a traceFlowPath call: those of the links and the start
TracedIds == {tfStart} \cup {tfLinks[l].source : l \in 1..Len(tfLinks)}
                       \cup {tfLinks[l].target : l \in 1..Len(tfLinks)}

\* C14: traceFlowPath terminates for every list of links, cycles and
\* self-loops included, with at most one path entry per distinct node id.
C14_TraceTerminates ==
    /\ [](tfPc # "idle" => /\ NoRepeat(tfPath)
                           /\ Len(tfPath) <= Cardinality(TracedIds)
                           /\ \A i \in 1..Len(tfPath) : tfPath[i] \in TracedIds)
    /\ [](tfPc = "returned" => tfPath = traceFlowPath(tfStart, tfLinks, tfNodes))
    /\ [](tfPc = "tracing" => <>(tfPc = "returned"))

\* a trace that returned from a cycle through a node with a self-loop
C14_Witness ==
    /\ tfPc = "returned"
    /\ Len(tfPath) = 2
    /\ IsLink(tfPath[2], tfPath[1])
    /\ IsLink(tfPath[1], tfPath[1])

----------------------------------------------------------------------------
(* Properties of the links of the graphs built (SpecBuild)                 *)

\* the node ids of the graph of the last build
LastNodeIds == {gbLast.graph.nodes[i].id : i \in 1..Len(gbLast.graph.nodes)}

\* the last build was given a list from which the resources of a scan are missing
LastListIncomplete ==
    /\ gbLast.input = "own"
    /\ \E f \in FailureShapes :
          /\ f # {} /\ f # 1..NumScans
          /\ \E known \in KnownKeys :
                /\ gbResources = ScanOutput(AccountOf(known), f)
                /\ gbResources # ScanOutput(AccountOf(known), {})

\* C15: in every graph buildBusinessFlowGraph returns, the source and the
\* target of every link are ids of nodes of that graph.
C15_FlowLinksJoinNodes ==
    (gbLast # NoObject /\ gbLast.op = "buildBusinessFlowGraph") =>
        \A l \in 1..Len(gbLast.graph.links) :
            /\ gbLast.graph.links[l].source \in LastNodeIds
            /\ gbLast.graph.links[l].target \in LastNodeIds

\* a business flow graph with links, built from a list with a scan missing
C15_Witness ==
    /\ gbLast # NoObject
    /\ gbLast.op = "buildBusinessFlowGraph"
    /\ LastListIncomplete
    /\ Len(gbLast.graph.links) >= 3

\* C16: in every graph buildGraph and buildSecurityAwareGraph return, the
\* source and the target of every link are ids of nodes of that graph, also
\* when a resource refers to a security group, instance, VPC or subnet that
\* is not in the resource list.
C16_InfraLinksJoinNodes ==
    (gbLast # NoObject /\ gbLast.op \in {"buildGraph", "buildSecurityAwareGraph"}) =>
        \A l \in 1..Len(gbLast.graph.links) :
            /\ gbLast.graph.links[l].source \in LastNodeIds
            /\ gbLast.graph.links[l].target \in LastNodeIds

----------------------------------------------------------------------------
(* Properties of the security view (SpecBuild)                             *)

\* the network ACLs of the list given to the last build: the resources
\* scanNetworkAcls made (their arn says so; their type is SECURITY_GROUP)
NetworkAclsScanned ==
    SelectSeq(ListOf(gbLast.input), LAMBDA r : r.arn = Ec2Arn("network-acl", r.id))

\* C18: for resources as the scanner produces them, extractNetworkAclDetails
\* returns exactly one entry per network ACL and no entry for any other
\* resource, so securitySummary.totalNacls is the number of network ACLs
\* the scan discovered.
C18_OneEntryPerNetworkAcl ==
    (gbLast # NoObject /\ gbLast.op = "buildSecurityAwareGraph") =>
        /\ [i \in 1..Len(gbLast.graph.networkAcls) |-> gbLast.graph.networkAcls[i].networkAclId]
              = [i \in 1..Len(NetworkAclsScanned) |-> NetworkAclsScanned[i].id]
        /\ gbLast.graph.metadata.securitySummary.totalNacls = Len(NetworkAclsScanned)

----------------------------------------------------------------------------
(* Properties of scanAllResources (SpecScan)                               *)

\* the per-type results of the scans of the current call: what scan i
\* returns does not depend on when it settles
PerTypeResults ==
    LET key == scanner.awsConfig.credentials.accessKeyId
    IN  [ i \in 1..NumScans |->
            ScanSettled(i, AccountOf(key), i \in failing \/ key \notin KnownKeys).value ]

\* C19: the list scanAllResources returns does not depend on the order in
\* which the scans complete: it is the concatenation of the per-type results
\* in the order in which the scans are listed, VPCs first, EKS Fargate
\* profiles last.
C19_OrderOfCompletionImmaterial ==
    pc = "scanned" =>
        /\ resources = Flatten(PerTypeResults)
        /\ \A i \in 1..NumScans : results[i].value = PerTypeResults[i]
        /\ \A a, b \in 1..Len(resources) :
              (resources[a].type = EKS_FARGATE_PROFILE /\ resources[b].type = VPC) => b < a

\* a list returned after scans settled out of their listing order
C19_Witness ==
    /\ pc = "scanned"
    /\ overtaken
    /\ failing = {}
    /\ Len(resources) > 2
    /\ resources[1].type = VPC
    /\ resources[Len(resources)].type = EKS_FARGATE_PROFILE

----------------------------------------------------------------------------
(* Properties of the business flow links (SpecBuild)                       *)

\* the tiers of the business flow: Internet Gateway, Load Balancer, compute, data
Tier(type) ==
    CASE type = INTERNET_GATEWAY -> 1
      [] type = ELASTIC_LOAD_BALANCER -> 2
      [] type \in {EC2_INSTANCE, EKS_CLUSTER, LAMBDA_FUNCTION} -> 3
      [] type \in {RDS_INSTANCE, S3_BUCKET} -> 4
      [] OTHER -> 0

\* the tier of the node with this id in the graph of the last build
TierOfNode(id) ==
    LET at == {i \in 1..Len(gbLast.graph.nodes) : gbLast.graph.nodes[i].id = id}
    IN  IF at = {} THEN 0 ELSE Tier(gbLast.graph.nodes[CHOOSE i \in at : TRUE].type)

\* C17: business-flow links only lead forward through the tiers Internet
\* Gateway, Load Balancer, compute, data: no link ends at an Internet Gateway
\* or starts at a data node, so the links have no cycle and every flow path
\* has at most 4 nodes.
C17_LinksLeadForward ==
    (gbLast # NoObject /\ gbLast.op = "buildBusinessFlowGraph") =>
        /\ \A l \in 1..Len(gbLast.graph.links) :
              LET from == TierOfNode(gbLast.graph.links[l].source)
                  to == TierOfNode(gbLast.graph.links[l].target)
              IN  /\ from \in 1..3
                  /\ to \in 2..4
                  /\ from < to
        /\ \A p \in 1..Len(gbLast.graph.flowPaths) :
              /\ Len(gbLast.graph.flowPaths[p].nodes) <= 4
              /\ \A i, j \in 1..Len(gbLast.graph.flowPaths[p].nodes) :
                    i < j => TierOfNode(gbLast.graph.flowPaths[p].nodes[i])
                               < TierOfNode(gbLast.graph.flowPaths[p].nodes[j])

\* a flow path through all four tiers
C17_Witness ==
    /\ gbLast # NoObject
    /\ gbLast.op = "buildBusinessFlowGraph"
    /\ \E p \in 1..Len(gbLast.graph.flowPaths) :
          /\ Len(gbLast.graph.flowPaths[p].nodes) = 4
          /\ TierOfNode(gbLast.graph.flowPaths[p].nodes[4]) = 4

----------------------------------------------------------------------------
(* Properties of the relationships discovered (SpecBuild)                  *)

\* the graph of the last build links security group sgId to resource id
AssociatedWith(sgId, id) ==
    \E l \in 1..Len(gbLast.graph.links) :
        /\ gbLast.graph.links[l].source = sgId
        /\ gbLast.graph.links[l].target = id
        /\ gbLast.graph.links[l].type = ASSOCIATED_WITH

\* C20: discoverRelationships yields an ASSOCIATED_WITH link from a security
\* group to every EC2 instance and to every load balancer that uses that
\* security group.
C20_SecurityGroupsAssociated ==
    (gbLast # NoObject /\ gbLast.op = "buildGraph") =>
        \A i \in 1..Len(ListOf(gbLast.input)) :
            LET r == ListOf(gbLast.input)[i]
            IN  /\ r.type = EC2_INSTANCE =>
                      \A g \in 1..Len(r.metadata.securityGroupIds) :
                          AssociatedWith(r.metadata.securityGroupIds[g], r.id)
                /\ r.type = ELASTIC_LOAD_BALANCER =>
                      \A g \in 1..Len(LoadBalancerSecurityGroups(r.id)) :
                          AssociatedWith(LoadBalancerSecurityGroups(r.id)[g], r.id)

\* the MANAGES links of the graph of the last build that end at this id
ManagesLinksTo(id) ==
    { l \in 1..Len(gbLast.graph.links) :
        gbLast.graph.links[l].type = MANAGES /\ gbLast.graph.links[l].target = id }

\* the EKS clusters of the list given to the last build that have this name
ClustersNamed(name) ==
    { c \in 1..Len(ListOf(gbLast.input)) :
        ListOf(gbLast.input)[c].type = EKS_CLUSTER /\ ListOf(gbLast.input)[c].name = name }

\* C21: for every EKS nodegroup and every Fargate profile of the list there
\* is exactly one MANAGES link to it, from the EKS cluster whose name is its
\* metadata.clusterName, when such a cluster is in the list, and no MANAGES
\* link to it when there is none.
C21_ManagedByItsCluster ==
    (gbLast # NoObject /\ gbLast.op \in {"buildGraph", "buildSecurityAwareGraph"}) =>
        \A i \in 1..Len(ListOf(gbLast.input)) :
            LET r == ListOf(gbLast.input)[i]
                clusters == ClustersNamed(r.metadata.clusterName)
            IN  r.type \in {EKS_NODEGROUP, EKS_FARGATE_PROFILE} =>
                    IF clusters = {}
                    THEN ManagesLinksTo(r.id) = {}
                    ELSE /\ Cardinality(ManagesLinksTo(r.id)) = 1
                         /\ \A l \in ManagesLinksTo(r.id) :
                               \E c \in clusters :
                                   gbLast.graph.links[l].source = ListOf(gbLast.input)[c].id

\* a graph with MANAGES links to a nodegroup and to a Fargate profile
C21_Witness ==
    /\ gbLast # NoObject
    /\ gbLast.op = "buildGraph"
    /\ \E i, j \in 1..Len(ListOf(gbLast.input)) :
          /\ ListOf(gbLast.input)[i].type = EKS_NODEGROUP
          /\ ListOf(gbLast.input)[j].type = EKS_FARGATE_PROFILE
          /\ ManagesLinksTo(ListOf(gbLast.input)[i].id) # {}
          /\ ManagesLinksTo(ListOf(gbLast.input)[j].id) # {}

\* the monthly cost the rule gives a node: with an entry in pricingData its
\* pricePerMonth, else its pricePerHour * 24 * 30; without one the estimate
RuleCost(data, node) ==
    IF \E id \in DOMAIN data.pricingData : id = node.id
    THEN IF TruthyAmount(data.pricingData[node.id].pricePerMonth)
         THEN data.pricingData[node.id].pricePerMonth
         ELSE IF TruthyAmount(data.pricingData[node.id].pricePerHour)
              THEN data.pricingData[node.id].pricePerHour * 720
              ELSE 0
    ELSE AWS_PRICING(node.type)

RECURSIVE RuleCostOfNodes(_, _)
RuleCostOfNodes(data, n) ==
    IF n = 0 THEN 0 ELSE RuleCostOfNodes(data, n - 1) + RuleCost(data, data.nodes[n])

\* C22: the total the cost panel shows, in whole cents, is the sum over all
\* nodes of the graph of the node's monthly cost: the price of its entry in
\* pricingData when it has one (pricePerMonth, else pricePerHour * 24 * 30),
\* the fixed estimate of its type otherwise.
C22_TotalIsSumOfNodeCosts ==
    clGraphData # NoObject =>
        /\ clCosts.total = RuleCostOfNodes(clGraphData, Len(clGraphData.nodes))
        /\ clCosts.shown = (RuleCostOfNodes(clGraphData, Len(clGraphData.nodes)) + 50) \div 100

\* the panel shows the cost of a graph with a priced node whose price is not
\* the estimate of its type, a node that is estimated, and a node of a type
\* that belongs to no cost category
C22_Witness ==
    /\ clGraphData # NoObject
    /\ clCosts.total > 0
    /\ \E i, j, k \in 1..Len(clGraphData.nodes) :
          /\ clGraphData.nodes[i].id \in DOMAIN clGraphData.pricingData
          /\ clGraphData.pricingData[clGraphData.nodes[i].id].pricePerMonth
                # AWS_PRICING(clGraphData.nodes[i].type)
          /\ clGraphData.nodes[j].id \notin DOMAIN clGraphData.pricingData
          /\ AWS_PRICING(clGraphData.nodes[j].type) > 0
          /\ CostCategory(clGraphData.nodes[k].type) = "none"

\* the ids of the nodes of the graph on the page whose layer and whose type
\* are enabled in the filters
EnabledNodeIds ==
    { clGraphData.nodes[n].id : n \in { m \in 1..Len(clGraphData.nodes) :
          /\ \E l \in 1..Len(clFilters.layers) : clFilters.layers[l] = clGraphData.nodes[m].layer
          /\ \E t \in 1..Len(clFilters.serviceTypes) :
                clFilters.serviceTypes[t] = clGraphData.nodes[m].type } }

DrawnNodeIds == { clDrawn.nodes[n].id : n \in 1..Len(clDrawn.nodes) }

\* what the page shows agrees with the graph and the filters
DrawnAsFiltered ==
    clGraphData # NoObject =>
        /\ DrawnNodeIds = EnabledNodeIds
        /\ \A l \in 1..Len(clDrawn.links) :
              clDrawn.links[l].source \in DrawnNodeIds /\ clDrawn.links[l].target \in DrawnNodeIds
        /\ ~clFilters.showRelationships => clDrawn.links = <<>>
        /\ \A layer \in GATEWAY..FOUNDATION :
              SeqRange(Toggled(Toggled(clFilters.layers, layer), layer)) = SeqRange(clFilters.layers)

\* C23: on the page of a scanned graph, after any sequence of layer,
\* service-type and relationship toggles, the nodes drawn are exactly the
\* nodes of the graph whose layer and type are enabled, every link drawn has
\* both ends among the nodes drawn, no link is drawn while showRelationships
\* is off, toggling a layer twice gives the enabled layers back, and a step
\* that operates a filter control sends no scan and leaves the graph alone.
C23_FilteringIsClientSide ==
    [][ /\ DrawnAsFiltered'
        /\ clToggles' # clToggles =>
              (clScans' = clScans /\ clScanning' = clScanning /\ clGraphData' = clGraphData) ]_vars

====
